---- MODULE Spec2Model ----
(***************************************************************************)
(* Model of the asynchronous reflection-job service of BibleReflection:    *)
(*   netlify/functions/reflectionStatus.js  (job store, rate limiter,      *)
(*       POST create / GET status handler, detached generation workflow)   *)
(*   netlify/functions/generateReflection.js (synchronous verse search     *)
(*       with its own retry loop)                                          *)
(* Times are milliseconds, as returned by Date.now().                      *)
(***************************************************************************)
EXTENDS Integers, Sequences, FiniteSets, Bags, TLC

(***************************************************************************)
(* Program constants                                                       *)
(***************************************************************************)
RATE_WINDOW_MS == 60000
MAX_POST_REQUESTS_PER_IP == 5
MAX_GET_REQUESTS_PER_IP == 60
MAX_STORE_AGE_MS == 1800000
CLEANUP_DELAY_MS == 60000
maxRetries == 3
initialRetryDelay == 2000
MAX_TOPIC_LEN == 1000
MAX_REFERENCE_LEN == 100
MAX_TEXT_LEN == 1000
MAX_VERSES == 10
MS_PER_DAY == 24 * 60 * 60 * 1000

(***************************************************************************)
(* Bounds of the model                                                     *)
(***************************************************************************)
MaxJobs == 1        \* creates accepted (workflows dispatched) in one run
MaxPosts == 2       \* POSTs counted in one rate window, job service runs
MaxGets == 2        \* GETs counted in one rate window, job service runs
NumRand == 1        \* distinct outcomes of Math.random() in generateUniqueId
OverLimit == 1      \* requests a client sends beyond its ceiling, limiter runs
MaxOtherReq == 1    \* requests per class of the second client, limiter runs
MaxStrLen == 4      \* length of the strings given to sanitizeInput on its own
MaxCap == 3         \* largest maxLength given to sanitizeInput on its own
MaxArrLen == 2      \* length of the arrays given to validateVerses on its own
MaxCount == 2       \* largest small maxVerses given to validateVerses on its own

(***************************************************************************)
(* JavaScript values.  A value is a record [t |-> type tag, v |-> payload]; *)
(* a string's payload is its sequence of characters.                       *)
(***************************************************************************)
Undefined == [t |-> "undefined", v |-> 0]
JsNull == [t |-> "null", v |-> 0]
Str(s) == [t |-> "string", v |-> s]
Num(n) == [t |-> "number", v |-> n]
Arr(a) == [t |-> "array", v |-> a]
Obj(r, x) == [t |-> "object", v |-> [reference |-> r, text |-> x]]

\* ToBoolean(v) is false
Falsy(v) ==
  \/ v.t \in {"undefined", "null"}
  \/ v.t = "string" /\ v.v = <<>>
  \/ v.t = "number" /\ v.v = 0

\* the characters String.prototype.trim and parseInt take for white space:
\* tab, line feed, vertical tab, form feed, carriage return, space,
\* U+00A0, U+1680, U+FEFF, and, written by their code points, U+2000 to
\* U+200A, U+2028, U+2029, U+202F, U+205F and U+3000
WhiteSpace ==
  {" ", "\t", "\n", "\f", "\r", "", " ", " ", "﻿",
   "U+2000", "U+2001", "U+2002", "U+2003", "U+2004", "U+2005", "U+2006", "U+2007",
   "U+2008", "U+2009", "U+200A", "U+2028", "U+2029", "U+202F", "U+205F", "U+3000"}

IsSpace(c) == c \in WhiteSpace

RECURSIVE TrimStart(_)
TrimStart(s) ==
  IF s = <<>> THEN <<>>
  ELSE IF IsSpace(Head(s)) THEN TrimStart(Tail(s)) ELSE s

RECURSIVE TrimEnd(_)
TrimEnd(s) ==
  IF s = <<>> THEN <<>>
  ELSE IF IsSpace(s[Len(s)]) THEN TrimEnd(SubSeq(s, 1, Len(s) - 1)) ELSE s

\* String.prototype.trim
Trim(s) == TrimEnd(TrimStart(s))

\* String.prototype.substring(0, n)
Substring0(s, n) == SubSeq(s, 1, IF Len(s) < n THEN Len(s) ELSE n)

\* sanitizeInput without the substring of line 51
sanitizeInputUncapped(input, maxLength) ==
  IF input.t # "string" THEN <<>>
  ELSE Trim(input.v)

\* sanitizeInput(input, maxLength): the characters of the returned string
sanitizeInput(input, maxLength) ==
  IF input.t # "string" THEN <<>>
  ELSE Substring0(Trim(input.v), maxLength)

\* the filter predicate of validateVerses
WellFormedVerse(verse) ==
  /\ verse.t = "object"
  /\ verse.v.reference.t = "string"
  /\ verse.v.text.t = "string"

RECURSIVE FilterVerses(_)
FilterVerses(a) ==
  IF a = <<>> THEN <<>>
  ELSE IF WellFormedVerse(Head(a))
       THEN <<Head(a)>> \o FilterVerses(Tail(a))
       ELSE FilterVerses(Tail(a))

\* validateVerses without the slice of line 71
validateVersesUnsliced(verses, maxVerses) ==
  IF verses.t # "array" THEN <<>>
  ELSE LET kept == FilterVerses(verses.v)
       IN  [i \in 1..Len(kept) |->
              [reference |-> sanitizeInput(kept[i].v.reference, MAX_REFERENCE_LEN),
               text |-> sanitizeInput(kept[i].v.text, MAX_TEXT_LEN)]]

\* validateVerses that takes the first maxVerses elements and then drops
\* the malformed ones, as the README's handleReflectionGeneration does
validateVersesSliceFirst(verses, maxVerses) ==
  IF verses.t # "array" THEN <<>>
  ELSE LET len == Len(verses.v)
           n == IF maxVerses < 0 THEN (IF len + maxVerses < 0 THEN 0 ELSE len + maxVerses)
                ELSE IF len < maxVerses THEN len ELSE maxVerses
           kept == FilterVerses(SubSeq(verses.v, 1, n))
       IN  [i \in 1..Len(kept) |->
              [reference |-> sanitizeInput(kept[i].v.reference, MAX_REFERENCE_LEN),
               text |-> sanitizeInput(kept[i].v.text, MAX_TEXT_LEN)]]

\* validateVerses(verses, maxVerses): a sequence of
\* [reference |-> chars, text |-> chars].  slice(0, maxVerses) of line 71
\* ends at maxVerses, at the end of the array when that comes first, and,
\* for a negative maxVerses, that many elements before the end of the array
validateVerses(verses, maxVerses) ==
  IF verses.t # "array" THEN <<>>
  ELSE LET kept == FilterVerses(verses.v)
           mapped == [i \in 1..Len(kept) |->
                        [reference |-> sanitizeInput(kept[i].v.reference, MAX_REFERENCE_LEN),
                         text |-> sanitizeInput(kept[i].v.text, MAX_TEXT_LEN)]]
           len == Len(mapped)
           end == IF maxVerses < 0 THEN (IF len + maxVerses < 0 THEN 0 ELSE len + maxVerses)
                  ELSE IF len < maxVerses THEN len ELSE maxVerses
       IN  SubSeq(mapped, 1, end)

\* new Date(ms).toISOString(): the calendar day and the time of day
ToISOString(ms) == [day |-> ms \div MS_PER_DAY, tod |-> ms % MS_PER_DAY]
\* new Date(iso).getTime()
GetTime(iso) == iso.day * MS_PER_DAY + iso.tod
NoDate == [day |-> -1, tod |-> 0]

(***************************************************************************)
(* State                                                                   *)
(***************************************************************************)
VARIABLES
  now,               \* Date.now()
  RATE_LIMIT_STORE,  \* <<ip, requestType>> -> [count, timestamp]
  REFLECTION_STORE,  \* job id -> job record
  wf,                \* the dispatched generateReflection calls, in dispatch order
  timers,            \* bag of the pending setTimeout(delete REFLECTION_STORE[id], 60000)
  hasKey,            \* process.env.OPENAI_API_KEY is set
  resp,              \* the response of the last handler invocation
  hist,              \* what the first workflow's retry loop has done so far
  vs,                \* the handleVerseSearch call of generateReflection.js
  san,               \* a sanitizeInput call on its own, and its repetition
  val,               \* a validateVerses call on its own
  cl                 \* the browser's generateReflectionAndPrayer call (index.html)

vars == <<now, RATE_LIMIT_STORE, REFLECTION_STORE, wf, timers, hasKey, resp, hist, vs, san, val, cl>>

Min(a, b) == IF a < b THEN a ELSE b

(***************************************************************************)
(* Rate limiter: checkRateLimit(ip, requestType)                           *)
(***************************************************************************)
RateLimitOf(requestType) ==
  IF requestType = "GET" THEN MAX_GET_REQUESTS_PER_IP ELSE MAX_POST_REQUESTS_PER_IP

\* the window test of lines 19 and 33
WindowExpired(t, timestamp) == t - timestamp > RATE_WINDOW_MS

\* RateStoreAfter without the expiry handling of lines 18-22 and 33-36
RateStoreNoReset(rs, ip, requestType, t) ==
  LET key == <<ip, requestType>>
      entry0 == IF key \in DOMAIN rs THEN rs[key] ELSE [count |-> 0, timestamp |-> t]
  IN  [k \in DOMAIN rs \cup {key} |->
         IF k = key THEN [entry0 EXCEPT !.count = @ + 1] ELSE rs[k]]

\* RateStoreAfter with one counter per client: line 39 counts the request
\* in every entry of the client
RateStoreSharedCount(rs, ip, requestType, t) ==
  LET key == <<ip, requestType>>
      kept == {k \in DOMAIN rs : ~WindowExpired(t, rs[k].timestamp)}
      entry0 == IF key \in kept THEN rs[key] ELSE [count |-> 0, timestamp |-> t]
  IN  [k \in kept \cup {key} |->
         IF k = key THEN [entry0 EXCEPT !.count = @ + 1]
         ELSE IF k[1] = ip THEN [rs[k] EXCEPT !.count = @ + 1]
         ELSE rs[k]]

\* RateStoreAfter that starts the window anew at a request over the limit
RateStoreSlidingOnReject(rs, ip, requestType, t) ==
  LET key == <<ip, requestType>>
      kept == {k \in DOMAIN rs : ~WindowExpired(t, rs[k].timestamp)}
      entry0 == IF key \in kept THEN rs[key] ELSE [count |-> 0, timestamp |-> t]
      entry1 == [entry0 EXCEPT !.count = @ + 1]
      entry2 == IF entry1.count > RateLimitOf(requestType)
                THEN [entry1 EXCEPT !.timestamp = t] ELSE entry1
  IN  [k \in kept \cup {key} |-> IF k = key THEN entry2 ELSE rs[k]]

\* RATE_LIMIT_STORE after the call
RateStoreAfter(rs, ip, requestType, t) ==
  LET key == <<ip, requestType>>
      kept == {k \in DOMAIN rs : ~WindowExpired(t, rs[k].timestamp)}
      cleaned == [k \in kept |-> rs[k]]
      entry0 == IF key \in kept THEN cleaned[key] ELSE [count |-> 0, timestamp |-> t]
      entry1 == IF WindowExpired(t, entry0.timestamp)
                THEN [count |-> 0, timestamp |-> t] ELSE entry0
      entry2 == [entry1 EXCEPT !.count = @ + 1]
  IN  [k \in kept \cup {key} |-> IF k = key THEN entry2 ELSE cleaned[k]]

\* checkRateLimit with >= for > in line 43
checkRateLimitOffByOne(rs, ip, requestType, t) ==
  RateStoreAfter(rs, ip, requestType, t)[<<ip, requestType>>].count >= RateLimitOf(requestType)

\* the value returned by the call: TRUE when the limit is exceeded
checkRateLimit(rs, ip, requestType, t) ==
  RateStoreAfter(rs, ip, requestType, t)[<<ip, requestType>>].count > RateLimitOf(requestType)

(***************************************************************************)
(* Job store                                                               *)
(***************************************************************************)
PendingRecord(t) ==
  [status |-> "pending", started |-> ToISOString(t), completed |-> NoDate,
   result |-> JsNull, error |-> JsNull, retryCount |-> 0, retryAfter |-> NoDate]

CompletedRecord(started, t, content) ==
  [status |-> "completed", started |-> started, completed |-> ToISOString(t),
   result |-> content, error |-> JsNull, retryCount |-> 0, retryAfter |-> NoDate]

FAILED_MESSAGE == Str(<<"Failed to generate reflection">>)
GENERIC_ERROR == Str(<<"An error occurred">>)

ErrorRecord(started, t) ==
  [status |-> "error", started |-> started, completed |-> ToISOString(t),
   result |-> JsNull, error |-> FAILED_MESSAGE, retryCount |-> 0, retryAfter |-> NoDate]

\* REFLECTION_STORE[id] = rec
Put(st, id, rec) == [k \in DOMAIN st \cup {id} |-> IF k = id THEN rec ELSE st[k]]
\* delete REFLECTION_STORE[id]
Delete(st, id) == [k \in DOMAIN st \ {id} |-> st[k]]

\* cleanupStaleEntries that spares the records still pending
cleanupStaleEntriesSparingPending(st, t) ==
  LET kept == {id \in DOMAIN st :
                 \/ ~(t - GetTime(st[id].started) > MAX_STORE_AGE_MS)
                 \/ st[id].status = "pending"}
  IN  [id \in kept |-> st[id]]

\* cleanupStaleEntries with >= for > in line 81
cleanupStaleEntriesAtMaxAge(st, t) ==
  LET kept == {id \in DOMAIN st : ~(t - GetTime(st[id].started) >= MAX_STORE_AGE_MS)}
  IN  [id \in kept |-> st[id]]

\* cleanupStaleEntries that removes only the records still pending
cleanupStaleEntriesPendingOnly(st, t) ==
  LET kept == {id \in DOMAIN st :
                 \/ ~(t - GetTime(st[id].started) > MAX_STORE_AGE_MS)
                 \/ st[id].status # "pending"}
  IN  [id \in kept |-> st[id]]

\* cleanupStaleEntries()
cleanupStaleEntries(st, t) ==
  LET kept == {id \in DOMAIN st : ~(t - GetTime(st[id].started) > MAX_STORE_AGE_MS)}
  IN  [id \in kept |-> st[id]]

\* generateUniqueId(): Date.now() in base 36 followed by the random suffix
generateUniqueId(t, r) == [t |-> t, r |-> r]
NoId == [t |-> -1, r |-> 0]

\* the catch-all of generateReflection (lines 455-477)
transitionToError(st, id, t) ==
  IF id \notin DOMAIN st
  THEN Put(st, id, ErrorRecord(ToISOString(t), t))
  ELSE Put(st, id, ErrorRecord(st[id].started, t))

\* transitionToCompleted that stops after lines 436-442 when the record was
\* deleted: the stub written there stays
transitionToCompletedLeavingStub(st, id, t, content) ==
  IF id \notin DOMAIN st
  THEN Put(st, id, [PendingRecord(t) EXCEPT !.result = Undefined, !.error = Undefined])
  ELSE Put(st, id, CompletedRecord(st[id].started, t, content))

\* the completed write of generateReflection (lines 435-451)
transitionToCompleted(st, id, t, content) ==
  LET st1 == IF id \notin DOMAIN st
             THEN Put(st, id, [PendingRecord(t) EXCEPT !.result = Undefined, !.error = Undefined])
             ELSE st
  IN  Put(st1, id, CompletedRecord(st1[id].started, t, content))

\* the in-place bookkeeping of the 429 branch (lines 390-394)
noteRetry(st, id, t, waitTime) ==
  IF id \in DOMAIN st
  THEN Put(st, id, [st[id] EXCEPT !.status = "pending",
                                  !.retryCount = @ + 1,
                                  !.retryAfter = ToISOString(t + waitTime)])
  ELSE st

(***************************************************************************)
(* The synchronous prefix of generateReflection(id, topic, verses),        *)
(* lines 288-359: everything before the first await                        *)
(***************************************************************************)
\* one entry of versesToUse.map(...): '' or `${v.reference}: ${v.text}`
VerseLine(v) ==
  IF v.reference = <<>> \/ v.text = <<>> THEN <<>>
  ELSE v.reference \o <<":", " ">> \o v.text

RECURSIVE JoinLines(_)
\* .filter(Boolean).join('\n')
JoinLines(ls) ==
  IF ls = <<>> THEN <<>>
  ELSE LET rest == JoinLines(Tail(ls))
       IN  IF Head(ls) = <<>> THEN rest
           ELSE IF rest = <<>> THEN Head(ls)
           ELSE Head(ls) \o <<"\n">> \o rest

VersesText(verses) ==
  LET versesToUse == SubSeq(verses, 1, Min(Len(verses), 10))
  IN  JoinLines([i \in 1..Len(versesToUse) |-> VerseLine(versesToUse[i])])

\* PrefixReachesFetch without the API key check of lines 356-359
PrefixReachesFetchIgnoringKey(topic, verses, key) ==
  /\ topic # <<>>
  /\ verses # <<>>
  /\ Trim(VersesText(verses)) # <<>>

\* TRUE when the prefix reaches the first fetch without throwing
PrefixReachesFetch(topic, verses, key) ==
  /\ topic # <<>>
  /\ verses # <<>>
  /\ Trim(VersesText(verses)) # <<>>
  /\ key

(***************************************************************************)
(* Requests                                                                *)
(***************************************************************************)
Topics ==
  << Undefined,
     Str(<<>>),
     Str(<<"h", "o", "p", "e">>),
     Str(<<" ", "j", "o", "y", " ">>),
     Str(<<"\r", "\n">>),
     Num(7) >>

GoodVerse == Obj(Str(<<"J", "n", " ", "3", ":", "1", "6">>), Str(<<"F", "o", "r">>))
BlankVerse == Obj(Str(<<" ">>), Str(<<"F", "o", "r">>))
BadVerse == Obj(Num(3), Str(<<"F", "o", "r">>))

VerseInputs ==
  << Undefined,
     Arr(<<>>),
     Arr(<<GoodVerse>>),
     Arr(<<JsNull, BadVerse, GoodVerse>>),
     Arr(<<BadVerse, JsNull>>),
     Arr(<<BlankVerse>>),
     Str(<<"J", "n">>) >>

\* event.body: absent, not JSON, or JSON with the two fields
Bodies ==
  {[kind |-> "missing", ti |-> 1, vi |-> 1], [kind |-> "unparsable", ti |-> 1, vi |-> 1]}
  \cup {[kind |-> "json", ti |-> i, vi |-> j] : i \in 1..Len(Topics), j \in 1..Len(VerseInputs)}

\* the checks of lines 133-151: TRUE when the handler throws and answers 400
BodyRejected(b) ==
  \/ b.kind # "json"
  \/ Falsy(Topics[b.ti])
  \/ Falsy(VerseInputs[b.vi])
  \/ validateVerses(VerseInputs[b.vi], MAX_VERSES) = <<>>

NoResp ==
  [method |-> "", ip |-> "", code |-> 0, retryAfter |-> "", id |-> NoId,
   status |-> "", result |-> JsNull, error |-> JsNull]

Response(method, ip, code) ==
  [NoResp EXCEPT !.method = method, !.ip = ip, !.code = code]

TooMany(method, ip) == [Response(method, ip, 429) EXCEPT !.retryAfter = "60"]

\* a generateReflection call at its first await
Dispatched(id) ==
  [id |-> id, pc |-> "fetch", retryCount |-> 0, retryDelay |-> initialRetryDelay,
   status |-> 0, waitTime |-> 0]

\* a generateReflection call that has returned
Returned(id) ==
  [id |-> id, pc |-> "done", retryCount |-> 0, retryDelay |-> 0, status |-> 0, waitTime |-> 0]

Terminal(status) == status \in {"completed", "error"}

\* safeResponse as in the older variant of the file (lines 568-579): the
\* stored record itself is the response body
safeResponseWholeRecord(reflection) == reflection

\* lines 232-238
safeResponse(reflection) ==
  [status |-> reflection.status,
   result |-> IF reflection.status = "completed" THEN reflection.result ELSE JsNull,
   error |-> IF reflection.status = "error" THEN GENERIC_ERROR ELSE JsNull]

\* an id that names a member of Object.prototype ('constructor',
\* '__proto__'): REFLECTION_STORE is a plain object, so REFLECTION_STORE[id]
\* is that member, though no create has stored anything under the id
ProtoId == [t |-> -2, r |-> 0]

\* REFLECTION_STORE[id] as lines 215 and 229 read it; for the id of a
\* prototype member an object without status, result or error, whose
\* undefined status JSON.stringify leaves out of the body
Lookup(st, id) ==
  IF id \in DOMAIN st THEN st[id]
  ELSE IF id = ProtoId
  THEN [status |-> "undefined", result |-> Undefined, error |-> Undefined]
  ELSE Undefined

\* the answer of a status read that passed the rate limiter: lines 213-249
StatusRead(st, id, ip) ==
  IF id = NoId \/ Lookup(st, id) = Undefined
  THEN [Response("GET", ip, 404) EXCEPT !.id = id]
  ELSE LET safe == safeResponse(Lookup(st, id))
       IN  [Response("GET", ip, 200) EXCEPT
              !.id = id, !.status = safe.status, !.result = safe.result, !.error = safe.error]

(***************************************************************************)
(* exports.handler                                                         *)
(***************************************************************************)
\* Post with the limiter consulted after the record is stored: a create
\* over the ceiling is answered 429 but leaves its pending record
PostUngated(ip, b, r) ==
  LET swept == cleanupStaleEntries(REFLECTION_STORE, now)
      id == generateUniqueId(now, r)
      topic == sanitizeInput(Topics[b.ti], MAX_TOPIC_LEN)
      verses == validateVerses(VerseInputs[b.vi], MAX_VERSES)
      created == Put(swept, id, PendingRecord(now))
  IN  /\ RATE_LIMIT_STORE' = RateStoreAfter(RATE_LIMIT_STORE, ip, "POST", now)
      /\ UNCHANGED <<now, timers, hasKey, vs, san, val, cl>>
      /\ IF checkRateLimit(RATE_LIMIT_STORE, ip, "POST", now)
         THEN /\ resp' = TooMany("POST", ip)
              /\ REFLECTION_STORE' = IF BodyRejected(b) THEN swept ELSE created
              /\ wf' = wf
         ELSE IF BodyRejected(b)
         THEN /\ resp' = Response("POST", ip, 400)
              /\ REFLECTION_STORE' = swept
              /\ wf' = wf
         ELSE /\ resp' = [Response("POST", ip, 202) EXCEPT !.id = id, !.status = "pending"]
              /\ IF PrefixReachesFetch(topic, verses, hasKey)
                 THEN /\ REFLECTION_STORE' = created
                      /\ wf' = Append(wf, Dispatched(id))
                 ELSE /\ REFLECTION_STORE' = transitionToError(created, id, now)
                      /\ wf' = Append(wf, Returned(id))

\* POST: lines 89, 113-192, and the prefix of generateReflection it runs
Post(ip, b, r) ==
  LET swept == cleanupStaleEntries(REFLECTION_STORE, now)
      id == generateUniqueId(now, r)
      topic == sanitizeInput(Topics[b.ti], MAX_TOPIC_LEN)
      verses == validateVerses(VerseInputs[b.vi], MAX_VERSES)
      created == Put(swept, id, PendingRecord(now))
  IN  /\ RATE_LIMIT_STORE' = RateStoreAfter(RATE_LIMIT_STORE, ip, "POST", now)
      /\ UNCHANGED <<now, timers, hasKey, vs, san, val, cl>>
      /\ IF checkRateLimit(RATE_LIMIT_STORE, ip, "POST", now)
         THEN /\ resp' = TooMany("POST", ip)
              /\ REFLECTION_STORE' = swept
              /\ wf' = wf
         ELSE IF BodyRejected(b)
         THEN /\ resp' = Response("POST", ip, 400)
              /\ REFLECTION_STORE' = swept
              /\ wf' = wf
         ELSE /\ resp' = [Response("POST", ip, 202) EXCEPT !.id = id, !.status = "pending"]
              /\ IF PrefixReachesFetch(topic, verses, hasKey)
                 THEN /\ REFLECTION_STORE' = created
                      /\ wf' = Append(wf, Dispatched(id))
                 ELSE /\ REFLECTION_STORE' = transitionToError(created, id, now)
                      /\ wf' = Append(wf, Returned(id))

\* Get without the setTimeout of lines 252-256
GetWithoutCleanup(ip, id) ==
  LET swept == cleanupStaleEntries(REFLECTION_STORE, now)
  IN  /\ RATE_LIMIT_STORE' = RateStoreAfter(RATE_LIMIT_STORE, ip, "GET", now)
      /\ REFLECTION_STORE' = swept
      /\ UNCHANGED <<now, wf, timers, hasKey, vs, san, val, cl>>
      /\ resp' = IF checkRateLimit(RATE_LIMIT_STORE, ip, "GET", now)
                 THEN [TooMany("GET", ip) EXCEPT !.id = id]
                 ELSE StatusRead(swept, id, ip)

\* Get whose delayed delete takes the place of the ones already pending for
\* the id, so that every terminal read starts the 60 s anew
GetRearming(ip, id) ==
  LET swept == cleanupStaleEntries(REFLECTION_STORE, now)
  IN  /\ RATE_LIMIT_STORE' = RateStoreAfter(RATE_LIMIT_STORE, ip, "GET", now)
      /\ REFLECTION_STORE' = swept
      /\ UNCHANGED <<now, wf, hasKey, vs, san, val, cl>>
      /\ IF checkRateLimit(RATE_LIMIT_STORE, ip, "GET", now)
         THEN /\ resp' = [TooMany("GET", ip) EXCEPT !.id = id]
              /\ timers' = timers
         ELSE /\ resp' = StatusRead(swept, id, ip)
              /\ timers' = IF id \in DOMAIN swept /\ Terminal(swept[id].status)
                           THEN SetToBag({[id |-> id, fireAt |-> now + CLEANUP_DELAY_MS]})
                                  (+) [tm \in {x \in BagToSet(timers) : x.id # id} |-> timers[tm]]
                           ELSE timers

\* Get without the sweep of line 89, as in the older variant of the file
GetWithoutSweep(ip, id) ==
  /\ RATE_LIMIT_STORE' = RateStoreAfter(RATE_LIMIT_STORE, ip, "GET", now)
  /\ REFLECTION_STORE' = REFLECTION_STORE
  /\ UNCHANGED <<now, wf, hasKey, vs, san, val, cl>>
  /\ IF checkRateLimit(RATE_LIMIT_STORE, ip, "GET", now)
     THEN /\ resp' = [TooMany("GET", ip) EXCEPT !.id = id]
          /\ timers' = timers
     ELSE /\ resp' = StatusRead(REFLECTION_STORE, id, ip)
          /\ timers' = IF id \in DOMAIN REFLECTION_STORE /\ Terminal(REFLECTION_STORE[id].status)
                       THEN timers (+) SetToBag({[id |-> id, fireAt |-> now + CLEANUP_DELAY_MS]})
                       ELSE timers

\* GET: lines 89, 193-272
Get(ip, id) ==
  LET swept == cleanupStaleEntries(REFLECTION_STORE, now)
  IN  /\ RATE_LIMIT_STORE' = RateStoreAfter(RATE_LIMIT_STORE, ip, "GET", now)
      /\ REFLECTION_STORE' = swept
      /\ UNCHANGED <<now, wf, hasKey, vs, san, val, cl>>
      /\ IF checkRateLimit(RATE_LIMIT_STORE, ip, "GET", now)
         THEN /\ resp' = [TooMany("GET", ip) EXCEPT !.id = id]
              /\ timers' = timers
         ELSE /\ resp' = StatusRead(swept, id, ip)
              /\ timers' = IF id \in DOMAIN swept /\ Terminal(swept[id].status)
                           THEN timers (+) SetToBag({[id |-> id, fireAt |-> now + CLEANUP_DELAY_MS]})
                           ELSE timers

\* Other with the limiter in front of it, counting the request as a POST
OtherGated(ip, method) ==
  /\ REFLECTION_STORE' = cleanupStaleEntries(REFLECTION_STORE, now)
  /\ RATE_LIMIT_STORE' = RateStoreAfter(RATE_LIMIT_STORE, ip, "POST", now)
  /\ resp' = IF checkRateLimit(RATE_LIMIT_STORE, ip, "POST", now)
             THEN TooMany(method, ip)
             ELSE Response(method, ip, IF method = "OPTIONS" THEN 204 ELSE 405)
  /\ UNCHANGED <<now, wf, timers, hasKey, vs, san, val, cl>>

\* OPTIONS (lines 89-104) and unsupported methods (lines 273-279)
Other(ip, method) ==
  /\ REFLECTION_STORE' = cleanupStaleEntries(REFLECTION_STORE, now)
  /\ resp' = Response(method, ip, IF method = "OPTIONS" THEN 204 ELSE 405)
  /\ UNCHANGED <<now, RATE_LIMIT_STORE, wf, timers, hasKey, vs, san, val, cl>>

\* one callback of the setTimeout of lines 253-255 runs.  The runtime
\* counts the delay on the clock of its event loop, whose milliseconds do
\* not begin with those of Date.now(): the callback can run when Date.now()
\* reads one less than the reading of the call plus the delay, and at any
\* reading after that, when the event loop comes to it
TimerFires(tm) ==
  /\ BagIn(tm, timers)
  /\ now >= tm.fireAt - 1
  /\ REFLECTION_STORE' = Delete(REFLECTION_STORE, tm.id)
  /\ timers' = timers (-) SetToBag({tm})
  /\ UNCHANGED <<now, RATE_LIMIT_STORE, wf, hasKey, resp, vs, san, val, cl>>

(***************************************************************************)
(* The retry loop and the terminal writes of generateReflection,           *)
(* lines 363-477.  A step runs from one await to the next.                 *)
(***************************************************************************)
\* the value of the upstream's retry-after header
RetryAfterHeaders ==
  << JsNull, Str(<<"1">>), Str(<<"W", "e", "d">>), Str(<<"0", "x", "1", "0">>),
     Str(<<"-", "5">>) >>

\* the number that is not one
NaN == [t |-> "NaN", v |-> 0]

\* the digits of parseInt in their order of value; the letters count in
\* radix 16 only, in either case
Digits ==
  <<{"0"}, {"1"}, {"2"}, {"3"}, {"4"}, {"5"}, {"6"}, {"7"}, {"8"}, {"9"},
    {"a", "A"}, {"b", "B"}, {"c", "C"}, {"d", "D"}, {"e", "E"}, {"f", "F"}>>
IsDigit(c, radix) == \E d \in 1..radix : c \in Digits[d]
DigitValue(c, radix) == (CHOOSE d \in 1..radix : c \in Digits[d]) - 1

RECURSIVE ParseDigits(_, _, _)
ParseDigits(s, acc, radix) ==
  IF s = <<>> \/ ~IsDigit(Head(s), radix) THEN acc
  ELSE ParseDigits(Tail(s), acc * radix + DigitValue(Head(s), radix), radix)

\* parseInt(s) without radix argument: leading white space is skipped, then
\* a sign, then 0x or 0X, which makes the radix 16; the digits that follow
\* are read up to the first character that is none; NaN without a digit
ParseInt(s) ==
  LET t == TrimStart(s)
      negative == t # <<>> /\ Head(t) = "-"
      u == IF t # <<>> /\ Head(t) \in {"+", "-"} THEN Tail(t) ELSE t
      hex == Len(u) >= 2 /\ u[1] = "0" /\ u[2] \in {"x", "X"}
      radix == IF hex THEN 16 ELSE 10
      z == IF hex THEN SubSeq(u, 3, Len(u)) ELSE u
  IN  IF z = <<>> \/ ~IsDigit(Head(z), radix) THEN NaN
      ELSE Num((IF negative THEN -1 ELSE 1) * ParseDigits(z, 0, radix))

\* WaitTime without the retry-after header
WaitTimeIgnoringHint(retryAfter, retryDelay) == Num(retryDelay)

\* line 385: a number of milliseconds, or NaN
WaitTime(retryAfter, retryDelay) ==
  IF ~Falsy(retryAfter)
  THEN IF ParseInt(retryAfter.v) = NaN THEN NaN ELSE Num(ParseInt(retryAfter.v).v * 1000)
  ELSE Num(retryDelay)

\* response.ok
Ok(status) == status >= 200 /\ status <= 299

Statuses == {200, 429, 500}
THROWN == 0      \* stands in the history for a fetch that rejected

\* what response.json() yields: a rejection, or data with or without
\* choices[0].message, and the message's content
Payloads ==
  << [parsed |-> FALSE, message |-> FALSE, content |-> Undefined],
     [parsed |-> TRUE, message |-> FALSE, content |-> Undefined],
     [parsed |-> TRUE, message |-> TRUE, content |-> Str(<<"A", "m", "e", "n">>)],
     [parsed |-> TRUE, message |-> TRUE, content |-> Str(<<>>)],
     [parsed |-> TRUE, message |-> TRUE, content |-> JsNull],
     [parsed |-> TRUE, message |-> TRUE, content |-> Undefined] >>

SetWf(i, w) == wf' = [wf EXCEPT ![i] = w]

\* the outer catch as in the older variant of the file (lines 687-705):
\* reading .started of a deleted record throws inside the handler
ThrowUnguarded(i, w, st) ==
  IF w.id \in DOMAIN st
  THEN /\ REFLECTION_STORE' = Put(st, w.id, ErrorRecord(st[w.id].started, now))
       /\ SetWf(i, Returned(w.id))
  ELSE /\ REFLECTION_STORE' = st
       /\ SetWf(i, [w EXCEPT !.pc = "crashed"])

\* the outer catch: lines 455-477
Throw(i, w, st) ==
  /\ REFLECTION_STORE' = transitionToError(st, w.id, now)
  /\ SetWf(i, Returned(w.id))

\* catch (fetchError) without the test of lines 412-414: it always counts
\* and waits
CatchFetchErrorUnchecked(i, w, st) ==
  /\ REFLECTION_STORE' = st
  /\ SetWf(i, [w EXCEPT !.retryCount = @ + 1,
                        !.retryDelay = @ * 2,
                        !.pc = "waitErr",
                        !.waitTime = w.retryDelay * 2])

\* catch (fetchError): lines 408-420
CatchFetchError(i, w, st) ==
  IF w.retryCount >= maxRetries
  THEN Throw(i, w, st)
  ELSE /\ REFLECTION_STORE' = st
       /\ SetWf(i, [w EXCEPT !.retryCount = @ + 1,
                             !.retryDelay = @ * 2,
                             !.pc = "waitErr",
                             !.waitTime = w.retryDelay * 2])

\* LoopTest with < for <= in line 370
LoopTestOffByOne(i, w, st) ==
  IF w.retryCount < maxRetries
  THEN /\ REFLECTION_STORE' = st
       /\ SetWf(i, [w EXCEPT !.pc = "fetch", !.waitTime = 0])
  ELSE IF Ok(w.status)
       THEN /\ REFLECTION_STORE' = st
            /\ SetWf(i, [w EXCEPT !.pc = "json", !.waitTime = 0])
       ELSE Throw(i, w, st)

\* the loop test of line 370, then lines 423-426 when the loop is left
LoopTest(i, w, st) ==
  IF w.retryCount <= maxRetries
  THEN /\ REFLECTION_STORE' = st
       /\ SetWf(i, [w EXCEPT !.pc = "fetch", !.waitTime = 0])
  ELSE IF Ok(w.status)
       THEN /\ REFLECTION_STORE' = st
            /\ SetWf(i, [w EXCEPT !.pc = "json", !.waitTime = 0])
       ELSE Throw(i, w, st)

\* await fetch(...) resolves with a response: lines 372-406, 423-428
FetchResolves(i, status, h) ==
  /\ i \in 1..Len(wf)
  /\ wf[i].pc = "fetch"
  /\ LET w == [wf[i] EXCEPT !.status = status]
         waitTime == WaitTime(RetryAfterHeaders[h], w.retryDelay)
         st == REFLECTION_STORE
     IN  IF status = 429
         THEN IF waitTime = NaN /\ w.id \in DOMAIN st
              THEN \* toISOString() of an invalid date throws after lines 391-392
                   CatchFetchError(i, w,
                     Put(st, w.id, [st[w.id] EXCEPT !.status = "pending", !.retryCount = @ + 1]))
              ELSE LET ms == IF waitTime = NaN THEN 1 ELSE waitTime.v
                   IN  /\ REFLECTION_STORE' = noteRetry(st, w.id, now, ms)
                       /\ SetWf(i, [w EXCEPT !.pc = "wait429", !.waitTime = ms])
         ELSE IF ~Ok(status)
         THEN Throw(i, w, st)
         ELSE /\ REFLECTION_STORE' = st
              /\ SetWf(i, [w EXCEPT !.pc = "json"])
  /\ UNCHANGED <<now, RATE_LIMIT_STORE, timers, hasKey, resp, vs, san, val, cl>>

\* await fetch(...) rejects: lines 408-420
FetchRejects(i) ==
  /\ i \in 1..Len(wf)
  /\ wf[i].pc = "fetch"
  /\ CatchFetchError(i, wf[i], REFLECTION_STORE)
  /\ UNCHANGED <<now, RATE_LIMIT_STORE, timers, hasKey, resp, vs, san, val, cl>>

\* a backoff wait returns: lines 397-402 or line 419, then the loop test
WaitReturns(i) ==
  /\ i \in 1..Len(wf)
  /\ wf[i].pc \in {"wait429", "waitErr"}
  /\ IF wf[i].pc = "wait429"
     THEN LoopTest(i, [wf[i] EXCEPT !.retryCount = @ + 1, !.retryDelay = @ * 2],
                   REFLECTION_STORE)
     ELSE LoopTest(i, wf[i], REFLECTION_STORE)
  /\ UNCHANGED <<now, RATE_LIMIT_STORE, timers, hasKey, resp, vs, san, val, cl>>

\* await response.json() settles: lines 428-453
JsonSettles(i, p) ==
  /\ i \in 1..Len(wf)
  /\ wf[i].pc = "json"
  /\ IF Payloads[p].parsed /\ Payloads[p].message
     THEN /\ REFLECTION_STORE' = transitionToCompleted(REFLECTION_STORE, wf[i].id, now,
                                                       Payloads[p].content)
          /\ SetWf(i, Returned(wf[i].id))
     ELSE Throw(i, wf[i], REFLECTION_STORE)
  /\ UNCHANGED <<now, RATE_LIMIT_STORE, timers, hasKey, resp, vs, san, val, cl>>

(***************************************************************************)
(* History of the first workflow's retry loop: the status of every settled *)
(* fetch (THROWN for a rejection), the retry-after header that came with   *)
(* it (0 when it is not read), every backoff wait, the payload that        *)
(* response.json() gave (0: none yet) and the status written at the end;   *)
(* and of its record: when a status read first returned it in a terminal   *)
(* state (-1: not yet), how many status reads found it after that, and     *)
(* whether it has ever been removed from the store                         *)
(***************************************************************************)
NoHist ==
  [seen |-> <<>>, hdrs |-> <<>>, waits |-> <<>>, payload |-> 0, end |-> "",
   observed |-> -1, polls |-> 0, gone |-> FALSE]

Waiting(w) == w.pc \in {"wait429", "waitErr"}

EndOf(i) ==
  IF wf'[i].pc = "done" /\ wf[i].pc # "done"
  THEN REFLECTION_STORE'[wf'[i].id].status ELSE hist.end

\* a create whose workflow threw before its first await
ObservePost ==
  hist' = IF wf = <<>> /\ wf' # <<>> /\ wf'[1].pc = "done"
          THEN [hist EXCEPT !.end = REFLECTION_STORE'[wf'[1].id].status]
          ELSE hist

\* a fetch of workflow i settled with status s and header h
Observe(i, s, h) ==
  hist' = IF i # 1 THEN hist
          ELSE [hist EXCEPT !.seen = Append(@, s),
                            !.hdrs = Append(@, IF s = 429 THEN h ELSE 0),
                            !.waits = IF Waiting(wf'[1]) THEN Append(@, wf'[1].waitTime) ELSE @,
                            !.end = EndOf(1)]

\* a wait of workflow i returned
ObserveWait(i) ==
  hist' = IF i # 1 THEN hist ELSE [hist EXCEPT !.end = EndOf(1)]

\* response.json() of workflow i settled with payload p
ObserveJson(i, p) ==
  hist' = IF i # 1 THEN hist ELSE [hist EXCEPT !.payload = p, !.end = EndOf(1)]

(***************************************************************************)
(* Time                                                                    *)
(***************************************************************************)
\* the clock readings at which something may happen, job service runs
TimePoints == {0, 60000, 1800001}

\* time passes; a callback that is due runs when the event loop comes to
\* it, requests and workflow steps can come first at any later reading
Tick(t) ==
  /\ t > now
  /\ now' = t
  /\ UNCHANGED <<RATE_LIMIT_STORE, REFLECTION_STORE, wf, timers, hasKey, resp, hist, vs, san, val, cl>>

(***************************************************************************)
(* The job service                                                         *)
(***************************************************************************)
NoSearch ==
  [pc |-> "idle", phase |-> 0, retryCount |-> 0, retryDelay |-> 0, status |-> 0,
   seen |-> <<>>, waits |-> <<>>, code |-> 0]

\* no validateVerses call on its own
NoValidation == [pc |-> "idle", kind |-> "other", idx |-> 1, elems |-> <<>>, maxVerses |-> 0, out |-> <<>>]

\* the page before "Find Scriptures" is clicked
NoClient ==
  [pc |-> "idle", local |-> FALSE, retries |-> 0, attempts |-> 0, creates |-> 0,
   ok |-> FALSE, exceeded |-> FALSE, shown |-> ""]

\* no sanitizeInput call on its own
NoCall == [pc |-> "idle", input |-> Undefined, maxLength |-> 0, out |-> <<>>, again |-> <<>>]

Init ==
  /\ now = 0
  /\ RATE_LIMIT_STORE = <<>>
  /\ REFLECTION_STORE = <<>>
  /\ wf = <<>>
  /\ timers = EmptyBag
  /\ hasKey \in BOOLEAN
  /\ resp = NoResp
  /\ hist = NoHist
  /\ vs = NoSearch
  /\ san = NoCall
  /\ val = NoValidation
  /\ cl = NoClient

\* requests of the class counted in the client's current window
Counted(ip, requestType) ==
  IF <<ip, requestType>> \in DOMAIN RATE_LIMIT_STORE
     /\ ~WindowExpired(now, RATE_LIMIT_STORE[<<ip, requestType>>].timestamp)
  THEN RATE_LIMIT_STORE[<<ip, requestType>>].count
  ELSE 0

\* the ids of the jobs created so far
KnownIds == {wf[i].id : i \in 1..Len(wf)}

\* the ids a status read may ask for: a job's id, none, or one that no
\* create returned and that names a member of Object.prototype
AskedIds == KnownIds \cup {NoId, ProtoId}

\* TRUE when the POST would be accepted and dispatch a workflow
Accepted(ip, b) ==
  ~checkRateLimit(RATE_LIMIT_STORE, ip, "POST", now) /\ ~BodyRejected(b)

\* request bodies of the job service runs: no body, a good one, one whose
\* topic is blank, one whose only verse has a blank reference
CoreBodies ==
  {[kind |-> "missing", ti |-> 1, vi |-> 1],
   [kind |-> "json", ti |-> 3, vi |-> 3],
   [kind |-> "json", ti |-> 5, vi |-> 3],
   [kind |-> "json", ti |-> 3, vi |-> 6]}

\* upstream answers of the job service runs: no retry-after header; a
\* rejected body, a reflection, a message without content
CoreHeaders == {1}
CorePayloads == {1, 3, 5}

\* the job service with at most `jobs` accepted creates
JobNext(jobs, points) ==
  \/ \E b \in CoreBodies, r \in 1..NumRand :
       /\ Counted("a", "POST") < MaxPosts
       /\ Accepted("a", b) => Len(wf) < jobs
       /\ Post("a", b, r) /\ UNCHANGED hist
  \/ \E id \in AskedIds :
       Counted("a", "GET") < MaxGets /\ Get("a", id) /\ UNCHANGED hist
  \/ \E m \in {"OPTIONS", "PUT"} : Other("a", m) /\ UNCHANGED hist
  \/ \E tm \in BagToSet(timers) : TimerFires(tm) /\ UNCHANGED hist
  \/ \E i \in 1..Len(wf), s \in Statuses, h \in CoreHeaders :
       FetchResolves(i, s, h) /\ UNCHANGED hist
  \/ \E i \in 1..Len(wf) : FetchRejects(i) /\ UNCHANGED hist
  \/ \E i \in 1..Len(wf) : WaitReturns(i) /\ UNCHANGED hist
  \/ \E i \in 1..Len(wf), p \in CorePayloads : JsonSettles(i, p) /\ UNCHANGED hist
  \/ \E t \in points : Tick(t)

Next == JobNext(MaxJobs, TimePoints)

Spec == Init /\ [][Next]_vars

\* the job service with one more create, so that two jobs can be given the
\* same id: same millisecond, same random suffix
PairTimePoints == {0, 60000}
NextPair == JobNext(MaxJobs + 1, PairTimePoints)
SpecPair == Init /\ [][NextPair]_vars

(***************************************************************************)
(* One workflow in isolation, with every upstream answer and the history   *)
(* of its retry loop; an OPTIONS request stands for the handler            *)
(* invocations that sweep the store meanwhile                              *)
(***************************************************************************)
RetryTimePoints == {0, 1800001}

NextRetry ==
  \/ \E b \in Bodies, r \in 1..NumRand :
       /\ wf = <<>>
       /\ Counted("a", "POST") < MaxPosts
       /\ Post("a", b, r) /\ ObservePost
  \/ wf # <<>> /\ Other("a", "OPTIONS") /\ UNCHANGED hist
  \/ \E s \in Statuses, h \in 1..Len(RetryAfterHeaders) :
       FetchResolves(1, s, h) /\ Observe(1, s, h)
  \/ FetchRejects(1) /\ Observe(1, THROWN, 0)
  \/ WaitReturns(1) /\ ObserveWait(1)
  \/ \E p \in 1..Len(Payloads) : JsonSettles(1, p) /\ ObserveJson(1, p)
  \/ \E t \in RetryTimePoints : wf # <<>> /\ Tick(t)

SpecRetry == Init /\ [][NextRetry]_vars

\* every external call and every backoff wait eventually returns or throws
SpecRetryFair ==
  /\ SpecRetry
  /\ WF_vars(\E s \in Statuses, h \in 1..Len(RetryAfterHeaders) :
               FetchResolves(1, s, h) /\ Observe(1, s, h))
  /\ WF_vars(WaitReturns(1) /\ ObserveWait(1))
  /\ WF_vars(\E p \in 1..Len(Payloads) : JsonSettles(1, p) /\ ObserveJson(1, p))

(***************************************************************************)
(* The rate limiter under load: two clients, requests that never reach     *)
(* the job layer's workflow                                                *)
(***************************************************************************)
RateTimePoints == {0, 60000, 60001}

RateBodies == {[kind |-> "missing", ti |-> 1, vi |-> 1]}

\* how many requests of a class a client may send in one window of a run
Budget(ip, requestType) ==
  IF ip = "a" THEN RateLimitOf(requestType) + OverLimit ELSE MaxOtherReq

NextRate ==
  \/ \E ip \in {"a", "b"}, b \in RateBodies, r \in 1..NumRand :
       Counted(ip, "POST") < Budget(ip, "POST") /\ Post(ip, b, r) /\ UNCHANGED hist
  \/ \E ip \in {"a", "b"} :
       Counted(ip, "GET") < Budget(ip, "GET") /\ Get(ip, NoId) /\ UNCHANGED hist
  \/ \E t \in RateTimePoints : Tick(t)

SpecRate == Init /\ [][NextRate]_vars

(***************************************************************************)
(* handleVerseSearch of generateReflection.js: two retry loops, the topic  *)
(* evaluation call (phase 1, lines 169-262) and the verse call (phase 2,   *)
(* lines 308-398), each followed by the checks on what it returned.  The   *)
(* history (seen, waits) is that of the current loop.                      *)
(***************************************************************************)
\* what await fetch(...) can come to: a rejection, or a response with a
\* non-2xx or a 2xx status
SearchStatuses == {THROWN, 429, 500, 200}

\* what await response.text() can come to: a rejection ("unreadable"), or
\* a body that is not JSON, lacks the expected content, declines the topic
\* or has no verses, or is as expected
SearchBodies == {"unreadable", "notJson", "invalid", "declined", "good"}

SearchStart(phase) ==
  [pc |-> "fetch", phase |-> phase, retryCount |-> 0, retryDelay |-> initialRetryDelay,
   status |-> 0, seen |-> <<>>, waits |-> <<>>, code |-> 0]

\* return of handleVerseSearch with an HTTP status
SearchReturns(v, code) == [v EXCEPT !.pc = "done", !.code = code]

\* SearchCatch with >= for > in line 254
SearchCatchOffByOne(v) ==
  LET v1 == [v EXCEPT !.retryCount = @ + 1]
  IN  IF v1.retryCount >= maxRetries
      THEN SearchReturns(v1, 500)
      ELSE [v1 EXCEPT !.pc = "waitErr", !.waits = Append(@, v1.retryDelay)]

\* catch (err): lines 248-261
SearchCatch(v) ==
  LET v1 == [v EXCEPT !.retryCount = @ + 1]
  IN  IF v1.retryCount > maxRetries
      THEN SearchReturns(v1, 500)
      ELSE [v1 EXCEPT !.pc = "waitErr", !.waits = Append(@, v1.retryDelay)]

\* handleVerseSearch(query, headers) is called: lines 156-169
SearchCalled ==
  /\ vs.pc = "idle"
  /\ vs' = SearchStart(1)
  /\ UNCHANGED <<now, RATE_LIMIT_STORE, REFLECTION_STORE, wf, timers, hasKey, resp, hist, san, val, cl>>

\* await fetch(...) settles (lines 172 and 310): a rejection goes to the
\* catch; with a response the call stands at await response.text() (lines
\* 217 and 236, 357 and 374)
SearchFetchSettles(status) ==
  /\ vs.pc = "fetch"
  /\ vs' = IF status = THROWN
           THEN SearchCatch([vs EXCEPT !.seen = Append(@, THROWN)])
           ELSE [vs EXCEPT !.pc = "text", !.status = status]
  /\ UNCHANGED <<now, RATE_LIMIT_STORE, REFLECTION_STORE, wf, timers, hasKey, resp, hist, san, val, cl>>

\* await response.text() settles: lines 217-233 and 236-246, 264-305 for the
\* topic call, 357-371 and 374-384, 400-447 for the verse call
SearchTextSettles(body) ==
  /\ vs.pc = "text"
  /\ LET v == [vs EXCEPT !.seen = Append(@, vs.status)]
     IN  vs' =
           IF body = "unreadable" THEN SearchCatch(v)
           ELSE IF ~Ok(v.status)
           THEN IF v.status = 429
                THEN LET v1 == [v EXCEPT !.retryCount = @ + 1]
                     IN  IF v1.retryCount <= maxRetries
                         THEN [v1 EXCEPT !.pc = "wait429", !.waits = Append(@, v1.retryDelay)]
                         ELSE SearchCatch(v1)
                ELSE SearchCatch(v)
           ELSE IF body = "notJson" THEN SearchCatch(v)
           ELSE IF body = "invalid" THEN SearchReturns(v, 500)
           ELSE IF v.phase = 1
           THEN IF body = "declined" THEN SearchReturns(v, 400) ELSE SearchStart(2)
           ELSE IF body = "declined" THEN SearchReturns(v, 500) ELSE SearchReturns(v, 200)
  /\ UNCHANGED <<now, RATE_LIMIT_STORE, REFLECTION_STORE, wf, timers, hasKey, resp, hist, san, val, cl>>

\* a backoff wait returns: lines 225-228, 259-260
SearchWaitReturns ==
  /\ vs.pc \in {"wait429", "waitErr"}
  /\ vs' = [vs EXCEPT !.pc = "fetch", !.retryDelay = @ * 2]
  /\ UNCHANGED <<now, RATE_LIMIT_STORE, REFLECTION_STORE, wf, timers, hasKey, resp, hist, san, val, cl>>

NextSearch ==
  \/ SearchCalled
  \/ \E status \in SearchStatuses : SearchFetchSettles(status)
  \/ \E body \in SearchBodies : SearchTextSettles(body)
  \/ SearchWaitReturns

SpecSearch == Init /\ [][NextSearch]_vars

(***************************************************************************)
(* Both retry callers against an upstream that never succeeds: the job     *)
(* workflow of reflectionStatus.js and the verse search of                 *)
(* generateReflection.js                                                   *)
(***************************************************************************)
NextFailing ==
  \/ \E b \in CoreBodies, r \in 1..NumRand :
       /\ wf = <<>>
       /\ Counted("a", "POST") < MaxPosts
       /\ Post("a", b, r) /\ ObservePost /\ UNCHANGED vs
  \/ \E s \in {429, 500}, h \in CoreHeaders :
       FetchResolves(1, s, h) /\ Observe(1, s, h)
  \/ FetchRejects(1) /\ Observe(1, THROWN, 0)
  \/ WaitReturns(1) /\ ObserveWait(1)
  \/ SearchCalled
  \/ \E status \in SearchStatuses \ {200} : SearchFetchSettles(status)
  \/ \E body \in SearchBodies : SearchTextSettles(body)
  \/ SearchWaitReturns

SpecFailing == Init /\ [][NextFailing]_vars

(***************************************************************************)
(* The life of one job: its create, the status reads of its client, the    *)
(* sweeps, the delayed deletes and its workflow, with the history of its   *)
(* record                                                                  *)
(***************************************************************************)
LifeTimePoints == {0, 59999, 60000, 60001, 1800001}

\* the step takes the record of the first job out of the store
Removed ==
  /\ wf # <<>>
  /\ wf[1].id \in DOMAIN REFLECTION_STORE
  /\ wf[1].id \notin DOMAIN REFLECTION_STORE'

\* a sweep or a delayed delete ran
ObserveRemoval == hist' = [hist EXCEPT !.gone = @ \/ Removed]

\* a status read was answered
ObserveGet ==
  hist' = [hist EXCEPT
             !.gone = @ \/ Removed,
             !.observed = IF @ = -1 /\ resp'.code = 200 /\ resp'.id \in KnownIds
                             /\ Terminal(resp'.status)
                          THEN now ELSE @,
             !.polls = IF hist.observed # -1 /\ resp'.code = 200 /\ resp'.id \in KnownIds
                       THEN @ + 1 ELSE @]

NextLife ==
  \/ \E b \in CoreBodies, r \in 1..NumRand :
       /\ wf = <<>>
       /\ Counted("a", "POST") < MaxPosts
       /\ Post("a", b, r) /\ ObservePost
  \/ \E id \in AskedIds :
       Counted("a", "GET") < MaxGets + 1 /\ Get("a", id) /\ ObserveGet
  \/ \E m \in {"OPTIONS", "PUT"} : wf # <<>> /\ Other("a", m) /\ ObserveRemoval
  \/ \E tm \in BagToSet(timers) : TimerFires(tm) /\ ObserveRemoval
  \/ \E s \in Statuses, h \in CoreHeaders : FetchResolves(1, s, h) /\ ObserveWait(1)
  \/ FetchRejects(1) /\ ObserveWait(1)
  \/ WaitReturns(1) /\ ObserveWait(1)
  \/ \E p \in CorePayloads : JsonSettles(1, p) /\ ObserveJson(1, p)
  \/ \E t \in LifeTimePoints : wf # <<>> /\ Tick(t)

SpecLife == Init /\ [][NextLife]_vars

(***************************************************************************)
(* sanitizeInput on its own: called on an input, then on what it returned  *)
(***************************************************************************)
SanChars == {"a", "b", " ", "\r"}
SanStrings == UNION {[1..n -> SanChars] : n \in 0..MaxStrLen}
NonStrings == << Undefined, JsNull, Num(7), Arr(<<>>), GoodVerse >>

\* the calls: a string or one of the other values, and a cap
SanCalls ==
  {[pc |-> "called", kind |-> "string", idx |-> 0, chars |-> x, maxLength |-> n,
    out |-> <<>>, again |-> <<>>] : x \in SanStrings, n \in 0..MaxCap}
  \cup {[pc |-> "called", kind |-> "other", idx |-> i, chars |-> <<>>, maxLength |-> n,
         out |-> <<>>, again |-> <<>>] : i \in 1..Len(NonStrings), n \in 0..MaxCap}

\* the argument of the call
SanInput(c) == IF c.kind = "string" THEN Str(c.chars) ELSE NonStrings[c.idx]

InitSanitize ==
  /\ now = 0
  /\ RATE_LIMIT_STORE = <<>>
  /\ REFLECTION_STORE = <<>>
  /\ wf = <<>>
  /\ timers = EmptyBag
  /\ hasKey = TRUE
  /\ resp = NoResp
  /\ hist = NoHist
  /\ vs = NoSearch
  /\ san \in SanCalls
  /\ val = NoValidation
  /\ cl = NoClient

\* sanitizeInput(input, maxLength) returns
SanitizeReturns ==
  /\ san.pc = "called"
  /\ san' = [san EXCEPT !.pc = "returned",
                         !.out = sanitizeInput(SanInput(san), san.maxLength)]
  /\ UNCHANGED <<now, RATE_LIMIT_STORE, REFLECTION_STORE, wf, timers, hasKey, resp, hist, vs, val, cl>>

\* sanitizeInput(sanitizeInput(input, maxLength), maxLength) returns
SanitizeAgainReturns ==
  /\ san.pc = "returned"
  /\ san' = [san EXCEPT !.pc = "twice",
                         !.again = sanitizeInput(Str(san.out), san.maxLength)]
  /\ UNCHANGED <<now, RATE_LIMIT_STORE, REFLECTION_STORE, wf, timers, hasKey, resp, hist, vs, val, cl>>

NextSanitize == SanitizeReturns \/ SanitizeAgainReturns

SpecSanitize == InitSanitize /\ [][NextSanitize]_vars

(***************************************************************************)
(* validateVerses on its own                                               *)
(***************************************************************************)
\* a reference and a text one character longer than their caps
LongReference == [i \in 1..(MAX_REFERENCE_LEN + 1) |-> "r"]
LongText == [i \in 1..(MAX_TEXT_LEN + 1) |-> "t"]

\* what an element of the array can be: null, undefined, a number, a
\* string, an array, and objects whose fields are good, too long, blank,
\* not strings or missing
VerseElems ==
  << JsNull, Undefined, Num(3), Str(<<"J", "n">>), Arr(<<>>),
     GoodVerse,
     Obj(Str(LongReference), Str(LongText)),
     BlankVerse,
     BadVerse,
     Obj(Str(<<"J", "n">>), Undefined),
     Obj(Undefined, Undefined) >>

\* what the argument can be when it is not an array
NonArrays == << Undefined, JsNull, Num(7), Str(<<"J", "n">>), GoodVerse >>

\* eleven good verses, for the default maxVerses
ElevenVerses == [i \in 1..(MAX_VERSES + 1) |-> 6]

ValCalls ==
  {[pc |-> "called", kind |-> "array", idx |-> 1, elems |-> e, maxVerses |-> n, out |-> <<>>] :
     e \in UNION {[1..k -> 1..Len(VerseElems)] : k \in 0..MaxArrLen}, n \in 0..MaxCount}
  \cup {[pc |-> "called", kind |-> "array", idx |-> 1, elems |-> ElevenVerses,
         maxVerses |-> MAX_VERSES, out |-> <<>>]}
  \cup {[pc |-> "called", kind |-> "other", idx |-> i, elems |-> <<>>, maxVerses |-> n, out |-> <<>>] :
          i \in 1..Len(NonArrays), n \in 0..MaxCount}

\* the argument of the call
ValInput(c) ==
  IF c.kind = "array" THEN Arr([i \in 1..Len(c.elems) |-> VerseElems[c.elems[i]]])
  ELSE NonArrays[c.idx]

InitValidate ==
  /\ now = 0
  /\ RATE_LIMIT_STORE = <<>>
  /\ REFLECTION_STORE = <<>>
  /\ wf = <<>>
  /\ timers = EmptyBag
  /\ hasKey = TRUE
  /\ resp = NoResp
  /\ hist = NoHist
  /\ vs = NoSearch
  /\ san = NoCall
  /\ val \in ValCalls
  /\ cl = NoClient

\* validateVerses(verses, maxVerses) returns
ValidateReturns ==
  /\ val.pc = "called"
  /\ val' = [val EXCEPT !.pc = "returned",
                         !.out = validateVerses(ValInput(val), val.maxVerses)]
  /\ UNCHANGED <<now, RATE_LIMIT_STORE, REFLECTION_STORE, wf, timers, hasKey, resp, hist, vs, san, cl>>

NextValidate == ValidateReturns

SpecValidate == InitValidate /\ [][NextValidate]_vars

(***************************************************************************)
(* The page's generateReflectionAndPrayer(topic, verses), index.html lines *)
(* 390-556.  cl.pc is where the call stands: at the await of the POST      *)
(* ("create"), at the await of the POST response's json() ("createJson"),  *)
(* at the await of a status GET ("poll"), at the await of the status       *)
(* response's json() ("pollJson"), at the one-second timer between two     *)
(* polls ("pollTimer"), at the two-second wait before a new attempt        *)
(* ("retryTimer"), or returned ("done").  cl.ok is the ok of the response  *)
(* whose body is being read; cl.exceeded records that checkStatus has      *)
(* thrown for attempts > maxAttempts.  The server is any server: each      *)
(* request settles in one of the ways the code tells apart.                *)
(***************************************************************************)
\* const maxRetries = 3 of generateReflectionAndPrayer
clientMaxRetries == 3
maxAttempts == 30

\* how a fetch can settle: it rejects, or it resolves with a non-2xx or a
\* 2xx response
FetchAnswers == {"rejected", "notOk", "ok"}

\* how the json() of the POST's response can settle: it rejects, or it
\* resolves with null, with an object without result (none, or a falsy
\* one), with an object whose result is truthy and not a string, which has
\* no replace method, or with an object whose result is a string
StartBodies == {"rejected", "null", "noResult", "resultNotString", "result"}

\* how the json() of a status response can settle: it rejects, or it
\* resolves with null, or with an object whose status is 'completed' with
\* a string as result, 'completed' with a truthy result that is not a
\* string, 'completed' without result, 'error', or anything else
StatusBodies ==
  {"rejected", "null", "completed", "completedNotString", "completedEmpty", "error",
   "pending"}

SetCl(c) == cl' = c

\* all attempts failed: lines 546-555
ShowError(c) == [c EXCEPT !.pc = "done", !.shown = "error"]

\* the while test of line 400 and the POST of lines 411 and 445; creates
\* counts the POSTs sent
LoopTop(c) ==
  IF c.retries < clientMaxRetries
  THEN [c EXCEPT !.pc = "create", !.attempts = 0, !.creates = @ + 1]
  ELSE ShowError(c)

\* catch (error): lines 534-543
ClientCatch(c) ==
  LET c1 == [c EXCEPT !.retries = @ + 1]
  IN  IF c1.retries < clientMaxRetries
      THEN [c1 EXCEPT !.pc = "retryTimer", !.shown = "retry"]
      ELSE LoopTop(c1)

\* checkStatus up to its fetch: lines 468-480
checkStatus(c) ==
  LET c1 == [c EXCEPT !.attempts = @ + 1]
  IN  IF c1.attempts > maxAttempts
      THEN ClientCatch([c1 EXCEPT !.exceeded = TRUE])
      ELSE [c1 EXCEPT !.pc = "poll"]

\* the call, up to its first await
generateReflectionAndPrayer(isLocal) ==
  /\ cl.pc = "idle"
  /\ SetCl(LoopTop([NoClient EXCEPT !.local = isLocal, !.shown = "loading"]))
  /\ UNCHANGED <<now, RATE_LIMIT_STORE, REFLECTION_STORE, wf, timers, hasKey, resp, hist,
                 vs, san, val>>

\* await fetch(...) of the POST settles: lines 411 (local) and 445
\* (production); with a response the call stands at await response.json()
StartFetchSettles(a) ==
  /\ cl.pc = "create"
  /\ IF a = "rejected"
     THEN SetCl(ClientCatch(cl))
     ELSE SetCl([cl EXCEPT !.pc = "createJson", !.ok = (a = "ok")])
  /\ UNCHANGED <<now, RATE_LIMIT_STORE, REFLECTION_STORE, wf, timers, hasKey, resp, hist,
                 vs, san, val>>

\* await response.json() of the POST's response settles: lines 423-441
\* (local), 456-466 and 510-522 (production), where the first checkStatus
\* runs up to its fetch
StartJsonSettles(b) ==
  /\ cl.pc = "createJson"
  /\ IF b \in {"rejected", "null"} \/ ~cl.ok
     THEN SetCl(ClientCatch(cl))
     ELSE IF cl.local
     THEN IF b \in {"noResult", "resultNotString"}
          THEN \* lines 431-433, or the TypeError of data.result.replace in line 434
               SetCl(ClientCatch(cl))
          ELSE SetCl([cl EXCEPT !.pc = "done", !.shown = "result"])
     ELSE SetCl(checkStatus([cl EXCEPT !.attempts = 0]))
  /\ UNCHANGED <<now, RATE_LIMIT_STORE, REFLECTION_STORE, wf, timers, hasKey, resp, hist,
                 vs, san, val>>

\* await fetch(...) of a status GET settles: lines 475-484; a 2xx response
\* leaves the call at await statusResponse.json()
StatusFetchSettles(a) ==
  /\ cl.pc = "poll"
  /\ IF a = "ok"
     THEN SetCl([cl EXCEPT !.pc = "pollJson", !.ok = TRUE])
     ELSE SetCl(ClientCatch(cl))
  /\ UNCHANGED <<now, RATE_LIMIT_STORE, REFLECTION_STORE, wf, timers, hasKey, resp, hist,
                 vs, san, val>>

\* await statusResponse.json() settles: lines 486-506 and 513-521
StatusJsonSettles(b) ==
  /\ cl.pc = "pollJson"
  /\ IF b \in {"rejected", "null", "error", "completedNotString"}
     THEN \* "completedNotString": the TypeError of statusData.result.replace, line 490
          SetCl(ClientCatch(cl))
     ELSE IF b = "completed"
     THEN SetCl([cl EXCEPT !.pc = "done", !.shown = "result"])
     ELSE SetCl([cl EXCEPT !.pc = "pollTimer", !.shown = "loading"])
  /\ UNCHANGED <<now, RATE_LIMIT_STORE, REFLECTION_STORE, wf, timers, hasKey, resp, hist,
                 vs, san, val>>

\* setTimeout(poll, 1000) fires: line 517
PollTimerFires ==
  /\ cl.pc = "pollTimer"
  /\ SetCl(checkStatus(cl))
  /\ UNCHANGED <<now, RATE_LIMIT_STORE, REFLECTION_STORE, wf, timers, hasKey, resp, hist,
                 vs, san, val>>

\* the wait of line 541 returns
RetryTimerFires ==
  /\ cl.pc = "retryTimer"
  /\ SetCl(LoopTop(cl))
  /\ UNCHANGED <<now, RATE_LIMIT_STORE, REFLECTION_STORE, wf, timers, hasKey, resp, hist,
                 vs, san, val>>

NextClient ==
  \/ \E isLocal \in BOOLEAN : generateReflectionAndPrayer(isLocal)
  \/ \E a \in FetchAnswers : StartFetchSettles(a)
  \/ \E b \in StartBodies : StartJsonSettles(b)
  \/ \E a \in FetchAnswers : StatusFetchSettles(a)
  \/ \E b \in StatusBodies : StatusJsonSettles(b)
  \/ PollTimerFires
  \/ RetryTimerFires

SpecClient == Init /\ [][NextClient]_vars

\* the event loop runs every timer the call has set (lines 517 and 541).
\* The fetch calls of lines 411, 445 and 475 are made without a timeout or
\* an AbortSignal, and so are the json() reads of their bodies: nothing in
\* the page makes a request settle, and none is assumed to.
SpecClientFair ==
  /\ SpecClient
  /\ WF_vars(PollTimerFires)
  /\ WF_vars(RetryTimerFires)

(***************************************************************************)
(* One job whose client never polls.  The handler keeps being invoked (an  *)
(* OPTIONS request stands for any invocation), every external call and     *)
(* every backoff wait of the workflow returns, and the clock goes on: its  *)
(* last reading stands for a time by which the workflow has returned.      *)
(***************************************************************************)
LeakTimePoints == {0, 1800001, 3600002}
LeakHorizon == 3600002

NextLeak ==
  \/ \E b \in CoreBodies, r \in 1..NumRand :
       /\ wf = <<>> /\ now = 0
       /\ Counted("a", "POST") < MaxPosts
       /\ Post("a", b, r) /\ ObservePost
  \/ wf # <<>> /\ Other("a", "OPTIONS") /\ ObserveRemoval
  \/ \E s \in Statuses, h \in CoreHeaders : FetchResolves(1, s, h) /\ ObserveWait(1)
  \/ FetchRejects(1) /\ ObserveWait(1)
  \/ WaitReturns(1) /\ ObserveWait(1)
  \/ \E p \in CorePayloads : JsonSettles(1, p) /\ ObserveJson(1, p)
  \/ \E t \in LeakTimePoints :
       /\ wf # <<>>
       /\ t = LeakHorizon => wf[1].pc = "done"
       /\ Tick(t)

SpecLeak ==
  /\ Init /\ [][NextLeak]_vars
  /\ WF_vars(wf # <<>> /\ Other("a", "OPTIONS") /\ ObserveRemoval)
  /\ WF_vars((\E s \in Statuses, h \in CoreHeaders : FetchResolves(1, s, h) /\ ObserveWait(1))
               \/ (FetchRejects(1) /\ ObserveWait(1)))
  /\ WF_vars(WaitReturns(1) /\ ObserveWait(1))
  /\ WF_vars(\E p \in CorePayloads : JsonSettles(1, p) /\ ObserveJson(1, p))
  /\ WF_vars(\E t \in LeakTimePoints :
               wf # <<>> /\ (t = LeakHorizon => wf[1].pc = "done") /\ Tick(t))

(***************************************************************************)
(* One job, its status reads and the other invocations of the handler at   *)
(* the clock readings around MAX_STORE_AGE_MS                              *)
(***************************************************************************)
SweepTimePoints == {0, 1800000, 1800001}

NextSweep ==
  \/ \E b \in CoreBodies, r \in 1..NumRand :
       /\ wf = <<>>
       /\ Counted("a", "POST") < MaxPosts
       /\ Post("a", b, r) /\ ObservePost
  \/ \E id \in AskedIds :
       Counted("a", "GET") < MaxGets + 1 /\ Get("a", id) /\ ObserveGet
  \/ \E m \in {"OPTIONS", "PUT"} : wf # <<>> /\ Other("a", m) /\ ObserveRemoval
  \/ \E tm \in BagToSet(timers) : TimerFires(tm) /\ ObserveRemoval
  \/ \E s \in Statuses, h \in CoreHeaders : FetchResolves(1, s, h) /\ ObserveWait(1)
  \/ FetchRejects(1) /\ ObserveWait(1)
  \/ WaitReturns(1) /\ ObserveWait(1)
  \/ \E p \in CorePayloads : JsonSettles(1, p) /\ ObserveJson(1, p)
  \/ \E t \in SweepTimePoints : wf # <<>> /\ Tick(t)

SpecSweep == Init /\ [][NextSweep]_vars

(***************************************************************************)
(* One job and a client that goes over both ceilings of the rate limiter.  *)
(* The client asks for an id that was never given out until it is one      *)
(* request short of the GET ceiling, and for its job from there on, so     *)
(* that the delayed deletes pending at a time stay few.                    *)
(***************************************************************************)
GateTimePoints == {0, 1800000, 1800001}

\* request bodies of these runs: none, and a good one
GateBodies ==
  {[kind |-> "missing", ti |-> 1, vi |-> 1], [kind |-> "json", ti |-> 3, vi |-> 3]}

NextGate ==
  \/ \E b \in GateBodies, r \in 1..NumRand :
       /\ Counted("a", "POST") < Budget("a", "POST")
       /\ Accepted("a", b) => wf = <<>>
       /\ Post("a", b, r) /\ UNCHANGED hist
  \/ \E id \in KnownIds \cup {NoId} :
       /\ Counted("a", "GET") < Budget("a", "GET")
       /\ id # NoId => Counted("a", "GET") >= MAX_GET_REQUESTS_PER_IP - 1
       /\ Get("a", id) /\ UNCHANGED hist
  \/ \E tm \in BagToSet(timers) : TimerFires(tm) /\ UNCHANGED hist
  \/ \E s \in {200, 500}, h \in CoreHeaders : FetchResolves(1, s, h) /\ UNCHANGED hist
  \/ JsonSettles(1, 3) /\ UNCHANGED hist
  \/ \E m \in {"OPTIONS", "PUT"} : Other("a", m) /\ UNCHANGED hist
  \/ \E t \in GateTimePoints : Tick(t)

SpecGate == Init /\ [][NextGate]_vars

(***************************************************************************)
(* Properties                                                              *)
(***************************************************************************)
IsNull(v) == v.t \in {"null", "undefined"}

\* C1: a status read issued right after an accepted create returns answers
\* 200 with status 'pending', result null and error null.
C1_ReadAfterCreateIsPending ==
  [][Len(wf') = Len(wf) + 1 =>
       LET r == StatusRead(cleanupStaleEntries(REFLECTION_STORE', now'), resp'.id, resp'.ip)
       IN  /\ r.code = 200
           /\ r.status = "pending"
           /\ r.result.t = "null"
           /\ r.error.t = "null"]_vars

\* C2: a pending record has result and error null; a completed or error
\* record has exactly one of result, error non-null.
C2_ResultXorError ==
  \A id \in DOMAIN REFLECTION_STORE :
    LET rec == REFLECTION_STORE[id]
    IN  /\ rec.status = "pending" => IsNull(rec.result) /\ IsNull(rec.error)
        /\ Terminal(rec.status) => (IsNull(rec.result) # IsNull(rec.error))

\* C3: once a record is completed or error, no step changes its status,
\* result or error; it can only be deleted.
C3_TerminalIsFinal ==
  [][\A id \in DOMAIN REFLECTION_STORE :
       (Terminal(REFLECTION_STORE[id].status) /\ id \in DOMAIN REFLECTION_STORE')
       => /\ REFLECTION_STORE'[id].status = REFLECTION_STORE[id].status
          /\ REFLECTION_STORE'[id].result = REFLECTION_STORE[id].result
          /\ REFLECTION_STORE'[id].error = REFLECTION_STORE[id].error]_vars

\* C4: every dispatched workflow eventually writes a completed or error
\* record for its id, whatever the upstream answers and whether or not the
\* record was swept meanwhile.
C4_EventuallyTerminal == (wf # <<>>) ~> (hist.end \in {"completed", "error"})

\* the retries were exhausted on a record that had been swept, and the
\* workflow still ended by writing an error record
C4_Witness ==
  /\ Len(hist.seen) = maxRetries + 1
  /\ hist.end = "error"
  /\ wf[1].id.t = 0
  /\ wf[1].id \in DOMAIN REFLECTION_STORE
  /\ GetTime(REFLECTION_STORE[wf[1].id].started) > MAX_STORE_AGE_MS

\* C5: the request that makes the count of its key and class at most the
\* ceiling is allowed; the one that makes it exceed the ceiling is answered
\* 429 with a Retry-After header.
C5_CeilingEnforced ==
  resp.method \in {"POST", "GET"} =>
    LET count == RATE_LIMIT_STORE[<<resp.ip, resp.method>>].count
    IN  /\ count <= RateLimitOf(resp.method) => resp.code # 429
        /\ count > RateLimitOf(resp.method) => resp.code = 429 /\ resp.retryAfter = "60"

\* the 61st GET of a window was rejected after the 6th POST had been
C5_Witness ==
  /\ resp.method = "GET" /\ resp.code = 429 /\ resp.retryAfter = "60"
  /\ RATE_LIMIT_STORE[<<resp.ip, "GET">>].count = MAX_GET_REQUESTS_PER_IP + 1
  /\ <<resp.ip, "POST">> \in DOMAIN RATE_LIMIT_STORE
  /\ RATE_LIMIT_STORE[<<resp.ip, "POST">>].count = MAX_POST_REQUESTS_PER_IP + 1

\* C6: a key whose window has expired and that is in the store after a
\* step has just made a request; that request was allowed and started a
\* window at the present time with count 1, whatever the old count was.
C6_FreshWindow ==
  [][\A k \in DOMAIN RATE_LIMIT_STORE :
       (WindowExpired(now, RATE_LIMIT_STORE[k].timestamp) /\ k \in DOMAIN RATE_LIMIT_STORE')
       => /\ RATE_LIMIT_STORE'[k] = [count |-> 1, timestamp |-> now]
          /\ resp'.ip = k[1] /\ resp'.method = k[2]
          /\ resp'.code # 429]_vars

\* a window in which the client went over its ceiling has expired
C6_Witness ==
  \E k \in DOMAIN RATE_LIMIT_STORE :
    /\ RATE_LIMIT_STORE[k].count > RateLimitOf(k[2])
    /\ WindowExpired(now, RATE_LIMIT_STORE[k].timestamp)

RateKeys == {"a", "b"} \X {"POST", "GET"}

\* C7: a request leaves the limiter's verdict for every other key and
\* class as it was, now and at every later time.
C7_Independent ==
  [][RATE_LIMIT_STORE' # RATE_LIMIT_STORE =>
       \A k \in RateKeys \ {<<resp'.ip, resp'.method>>} :
         \A t \in {u \in RateTimePoints : u >= now} :
           checkRateLimit(RATE_LIMIT_STORE', k[1], k[2], t)
             = checkRateLimit(RATE_LIMIT_STORE, k[1], k[2], t)]_vars

\* a GET of client a is served while its POSTs are over the ceiling and
\* the other client has a window of its own
C7_Witness ==
  /\ resp.method = "GET" /\ resp.ip = "a" /\ resp.code = 404
  /\ <<"a", "POST">> \in DOMAIN RATE_LIMIT_STORE
  /\ RATE_LIMIT_STORE[<<"a", "POST">>].count > MAX_POST_REQUESTS_PER_IP
  /\ <<"b", "POST">> \in DOMAIN RATE_LIMIT_STORE

RECURSIVE Pow2(_)
Pow2(n) == IF n = 0 THEN 1 ELSE 2 * Pow2(n - 1)

WellFormed(p) == p # 0 /\ Payloads[p].parsed /\ Payloads[p].message

\* C8: after the answers 429, 429, 200 the loop has made three calls and
\* two waits; a wait without retry-after header is 2000 ms, then 4000 ms,
\* a wait with a header that parseInt reads as n seconds, n >= 0, is
\* n * 1000 ms; the job is completed once the 200's payload has been read.
C8_TwoBackoffsThenSuccess ==
  hist.seen = <<429, 429, 200>> =>
    /\ Len(hist.waits) = 2
    /\ \A j \in 1..2 :
         LET hdr == RetryAfterHeaders[hist.hdrs[j]]
         IN  /\ Falsy(hdr) => hist.waits[j] = initialRetryDelay * Pow2(j - 1)
             /\ (~Falsy(hdr) /\ ParseInt(hdr.v) # NaN /\ ParseInt(hdr.v).v >= 0) =>
                  hist.waits[j] = ParseInt(hdr.v).v * 1000
    /\ WellFormed(hist.payload) => hist.end = "completed"

\* 429 without header, 429 without header, 200 with a reflection
C8_Witness ==
  /\ hist.seen = <<429, 429, 200>>
  /\ hist.hdrs = <<1, 1, 0>>
  /\ hist.waits = <<2000, 4000>>
  /\ hist.end = "completed"

\* a status that is neither 2xx nor 429
Rejection(s) == s # THROWN /\ s # 429 /\ ~Ok(s)

\* C9: a non-2xx answer other than 429 is the last call of its retry loop,
\* no wait follows it and the caller has failed.
C9_RejectionNotRetried ==
  \A j \in 1..Len(vs.seen) :
    Rejection(vs.seen[j]) => j = Len(vs.seen) /\ vs.pc = "done" /\ vs.code = 500

AllAre(seq, s) == seq # <<>> /\ \A j \in 1..Len(seq) : seq[j] = s

\* C10 as stated: a caller that has only seen 500 and has finished has
\* exhausted its retries (maxRetries + 1 calls) and failed.
C10_ExhaustsRetriesOn500 ==
  /\ (AllAre(hist.seen, 500) /\ hist.end # "")
       => Len(hist.seen) = maxRetries + 1 /\ hist.end = "error"
  /\ (AllAre(vs.seen, 500) /\ vs.pc = "done")
       => Len(vs.seen) = maxRetries + 1 /\ vs.code = 500

\* C10 amended: against an upstream that only answers 500 the job workflow
\* ends after one call, without a wait, with the job in 'error'; the verse
\* search never makes more than maxRetries + 1 calls and ends after
\* exactly that many with HTTP 500.
C10_FailsOn500 ==
  /\ AllAre(hist.seen, 500)
       => Len(hist.seen) = 1 /\ hist.waits = <<>> /\ hist.end = "error"
  /\ AllAre(vs.seen, 500)
       => /\ Len(vs.seen) <= maxRetries + 1
          /\ vs.pc = "done" <=> Len(vs.seen) = maxRetries + 1
          /\ vs.pc = "done" => vs.code = 500

\* both callers have met the always-500 upstream and have finished
C10_Witness ==
  /\ hist.seen = <<500>> /\ hist.end = "error"
  /\ vs.seen = <<500, 500, 500, 500>> /\ vs.pc = "done" /\ vs.code = 500

\* C11: against an upstream that only answers 429 the retry loop makes at
\* most maxRetries retries after its first call; once it has made them it
\* stops on the last 429 and the job ends in 'error'.
C11_StopsAfterMaxRetriesOn429 ==
  AllAre(hist.seen, 429) =>
    /\ Len(hist.seen) <= maxRetries + 1
    /\ hist.end \in {"", "error"}
    /\ hist.end = "error" => Len(hist.seen) = maxRetries + 1
    /\ (Len(hist.seen) = maxRetries + 1 /\ ~Waiting(wf[1])) => hist.end = "error"

\* four calls answered 429 without retry-after header, then the failure
C11_Witness ==
  /\ hist.seen = <<429, 429, 429, 429>>
  /\ hist.hdrs = <<1, 1, 1, 1>>
  /\ hist.end = "error"
  /\ wf[1].pc = "done"
  /\ REFLECTION_STORE[wf[1].id].status = "error"

RECURSIVE SumSeq(_)
SumSeq(seq) == IF seq = <<>> THEN 0 ELSE Head(seq) + SumSeq(Tail(seq))

\* no answer so far carried a retry-after header
NoHints == \A j \in 1..Len(hist.hdrs) : hist.hdrs[j] = 0 \/ Falsy(RetryAfterHeaders[hist.hdrs[j]])

\* C12: without retry-after headers the j-th backoff wait of a workflow is
\* initialRetryDelay * 2^(j-1), and the waits add up to at most
\* initialRetryDelay * (2^maxRetries - 1), whatever mix of 429 answers and
\* rejected fetches the upstream gives.
C12_BackoffSequenceAndBound ==
  NoHints =>
    /\ \A j \in 1..Len(hist.waits) : hist.waits[j] = initialRetryDelay * Pow2(j - 1)
    /\ SumSeq(hist.waits) <= initialRetryDelay * (Pow2(maxRetries) - 1)

\* C13: a rejected fetch with retries left is followed by a wait of the
\* delay current at that call, initialRetryDelay * 2^(j-1) for the j-th
\* call, the first one being initialRetryDelay; a rejected fetch with no
\* retry left is followed by no wait and the job ends in 'error'.
C13_TransportWaitThenDouble ==
  /\ \A j \in 1..Len(hist.waits) :
        (NoHints /\ hist.seen[j] = THROWN) => hist.waits[j] = initialRetryDelay * Pow2(j - 1)
  /\ (Len(hist.seen) = maxRetries + 1 /\ hist.seen[maxRetries + 1] = THROWN)
       => Len(hist.waits) = maxRetries /\ hist.end = "error"

\* a step in which exports.handler ran, and cleanupStaleEntries with it:
\* the clock stands, no delayed delete fires, no workflow moves
SweepInvoked ==
  /\ now' = now
  /\ timers \sqsubseteq timers'
  /\ wf' = wf \/ Len(wf') = Len(wf) + 1

Stale(rec, t) == t - GetTime(rec.started) > MAX_STORE_AGE_MS

\* C14: after a handler invocation, which sweeps the store, no record that
\* started more than MAX_STORE_AGE_MS ago is in the store, whatever its
\* status.
C14_SweepLeavesNoStale ==
  [][SweepInvoked =>
       \A id \in DOMAIN REFLECTION_STORE' : ~Stale(REFLECTION_STORE'[id], now')]_vars

\* the record of a job whose workflow is still in flight, and which no
\* status read has seen terminal, has been swept after 30 minutes
C14_Witness ==
  /\ wf # <<>> /\ wf[1].pc # "done"
  /\ hist.gone /\ hist.observed = -1
  /\ wf[1].id \notin DOMAIN REFLECTION_STORE
  /\ now - wf[1].id.t > MAX_STORE_AGE_MS
  /\ resp.method # ""

\* a status read of the job `id` was answered by the job layer
GetServed(id) ==
  /\ RATE_LIMIT_STORE' # RATE_LIMIT_STORE
  /\ resp'.method = "GET" /\ resp'.id = id /\ resp'.code # 429

\* C15 as stated: for a job created less than 30 minutes ago, a status
\* read while its workflow runs is answered 200 'pending'; the first status
\* read after the workflow completed is answered 200 'completed' with the
\* text the upstream gave; a status read more than CLEANUP_DELAY_MS after
\* the first read that saw the job terminal is answered 404.
C15_Lifecycle ==
  [][(wf # <<>> /\ GetServed(wf[1].id)) =>
       LET young == now - wf[1].id.t <= MAX_STORE_AGE_MS
       IN  /\ (wf[1].pc # "done" /\ young) =>
                 /\ resp'.code = 200 /\ resp'.status = "pending"
                 /\ resp'.result = JsNull /\ resp'.error = JsNull
           /\ (hist.end = "completed" /\ young /\ hist.observed = -1) =>
                 /\ resp'.code = 200 /\ resp'.status = "completed"
                 /\ resp'.result = Payloads[hist.payload].content
                 /\ resp'.error = JsNull
           /\ (hist.observed # -1 /\ now > hist.observed + CLEANUP_DELAY_MS) =>
                 resp'.code = 404]_vars

\* the delayed delete that the first status read to see the job terminal
\* has set
FirstTimer == [id |-> wf[1].id, fireAt |-> hist.observed + CLEANUP_DELAY_MS]

\* C15 amended: for a job created less than 30 minutes ago, a status read
\* while its workflow runs is answered 200 'pending'; a status read after
\* the workflow completed is answered 200 'completed' with the text the
\* upstream gave for as long as no delete callback has run; the first read
\* that sees the job terminal sets a delete callback, which stays pending
\* while the record is in the store, runs no earlier than one millisecond
\* before CLEANUP_DELAY_MS have passed on the clock, and removes the
\* record; a status read after that is answered 404.
C15_LifecycleUntilCallback ==
  [][/\ (wf # <<>> /\ GetServed(wf[1].id)) =>
          LET young == now - wf[1].id.t <= MAX_STORE_AGE_MS
          IN  /\ (wf[1].pc # "done" /\ young) =>
                    /\ resp'.code = 200 /\ resp'.status = "pending"
                    /\ resp'.result = JsNull /\ resp'.error = JsNull
              /\ (hist.end = "completed" /\ young /\ ~hist.gone) =>
                    /\ resp'.code = 200 /\ resp'.status = "completed"
                    /\ resp'.result = Payloads[hist.payload].content
                    /\ resp'.error = JsNull
              /\ (hist.observed # -1 /\ wf[1].id \notin DOMAIN REFLECTION_STORE) =>
                    resp'.code = 404
     /\ (hist'.observed # -1 /\ wf'[1].id \in DOMAIN REFLECTION_STORE') =>
          BagIn(FirstTimer', timers')
     /\ \A tm \in BagToSet(timers) :
          TimerFires(tm) =>
             /\ now >= hist.observed + CLEANUP_DELAY_MS - 1
             /\ tm.id \notin DOMAIN REFLECTION_STORE']_vars

\* the job completed with a reflection and a status read saw it at 0; the
\* delete callback has run, and a status read when the cleanup delay had
\* passed was answered 404
C15_Witness ==
  /\ wf # <<>> /\ hist.end = "completed" /\ hist.payload = 3
  /\ hist.observed = 0 /\ now = CLEANUP_DELAY_MS
  /\ hist.gone /\ ~BagIn(FirstTimer, timers)
  /\ resp.method = "GET" /\ resp.id = wf[1].id /\ resp.code = 404

\* C16: after the status read that first saw a job terminal, at most one
\* more status read for the job is answered 200.
C16_AtMostOneMorePoll == hist.polls <= 1

\* C17: once the record of a job has been removed, by the sweep or by the
\* delayed delete, its id is not in the store again.
C17_NoResurrection ==
  hist.gone => wf[1].id \notin DOMAIN REFLECTION_STORE

\* the first workflow makes its terminal write in this step
TerminalWrite ==
  /\ wf # <<>>
  /\ wf[1].pc \notin {"done", "crashed"}
  /\ wf'[1].pc \in {"done", "crashed"}

\* C18: a terminal write that finds the record of its job deleted does not
\* throw: the workflow returns and the store holds a record for the id
\* again, either 'completed' with the upstream's content as result and a
\* null error, or 'error' with a null result and an error message.
C18_LateTransitionRecreates ==
  [][(TerminalWrite /\ wf[1].id \notin DOMAIN REFLECTION_STORE) =>
       /\ wf'[1].pc = "done"
       /\ wf[1].id \in DOMAIN REFLECTION_STORE'
       /\ LET rec == REFLECTION_STORE'[wf[1].id]
          IN  /\ rec.started = ToISOString(now)
              /\ rec.completed = ToISOString(now)
              /\ \/ /\ rec.status = "completed"
                    /\ hist'.payload # 0
                    /\ rec.result = Payloads[hist'.payload].content
                    /\ rec.error = JsNull
                 \/ /\ rec.status = "error"
                    /\ rec.result = JsNull
                    /\ ~IsNull(rec.error)]_vars

\* the record of a job created at time 0 was swept while the upstream call
\* was pending, and the workflow then completed and wrote it again
C18_Witness ==
  /\ wf # <<>> /\ wf[1].pc = "done" /\ wf[1].id.t = 0
  /\ hist.end = "completed" /\ hist.payload = 3
  /\ wf[1].id \in DOMAIN REFLECTION_STORE
  /\ REFLECTION_STORE[wf[1].id].status = "completed"
  /\ REFLECTION_STORE[wf[1].id].result = Payloads[3].content
  /\ GetTime(REFLECTION_STORE[wf[1].id].started) > MAX_STORE_AGE_MS

\* C19: sanitizing what sanitizeInput returned, with the same cap, gives
\* the same string.
C19_SanitizeIdempotent == san.pc = "twice" => san.again = san.out

IsPrefix(p, q) == Len(p) <= Len(q) /\ p = SubSeq(q, 1, Len(p))

\* C20: sanitizeInput returns the empty string for an input that is not a
\* string; for a string it returns the first maxLength characters of the
\* trimmed input, or all of it when it is shorter: at most maxLength
\* characters, a prefix of the trimmed input.
C20_SanitizeContract ==
  san.pc \in {"returned", "twice"} =>
    /\ san.kind = "other" => san.out = <<>>
    /\ san.kind = "string" =>
         /\ Len(san.out) <= san.maxLength
         /\ IsPrefix(san.out, Trim(san.chars))
         /\ Len(san.out) = Min(san.maxLength, Len(Trim(san.chars)))

\* a string with leading white space and more than maxLength other
\* characters was trimmed and cut
C20_Witness ==
  /\ san.pc = "returned" /\ san.kind = "string"
  /\ san.chars = <<" ", "a", "b", " ">> /\ san.maxLength = 1
  /\ san.out = <<"a">>

\* the elements of the argument that pass the filter of lines 60-66
WellFormedCount(c) ==
  Cardinality({i \in 1..Len(c.elems) : WellFormedVerse(VerseElems[c.elems[i]])})

\* C21: validateVerses returns at most maxVerses entries, none for an
\* argument that is not an array, one for each well-formed element up to
\* maxVerses, and every entry it returns has a reference of at most 100
\* and a text of at most 1000 characters.
C21_ValidateVersesContract ==
  val.pc = "returned" =>
    /\ Len(val.out) <= val.maxVerses
    /\ val.kind = "other" => val.out = <<>>
    /\ val.kind = "array" => Len(val.out) = Min(val.maxVerses, WellFormedCount(val))
    /\ \A i \in 1..Len(val.out) :
         /\ DOMAIN val.out[i] = {"reference", "text"}
         /\ Len(val.out[i].reference) <= MAX_REFERENCE_LEN
         /\ Len(val.out[i].text) <= MAX_TEXT_LEN

\* eleven good verses were cut to the default ten
C21_Witness ==
  /\ val.pc = "returned" /\ val.elems = ElevenVerses
  /\ val.maxVerses = MAX_VERSES /\ Len(val.out) = MAX_VERSES

\* the bodies that are invalid input: no body, no JSON, topic missing or
\* empty, topic empty once sanitized, verses missing, verse list empty once
\* validated
InvalidInput(b) ==
  \/ b.kind # "json"
  \/ Falsy(Topics[b.ti])
  \/ sanitizeInput(Topics[b.ti], MAX_TOPIC_LEN) = <<>>
  \/ Falsy(VerseInputs[b.vi])
  \/ validateVerses(VerseInputs[b.vi], MAX_VERSES) = <<>>

\* C22: a create with invalid input that passes the rate limiter is
\* answered 400, puts no record in the store and dispatches no workflow.
C22_InvalidCreateRejected ==
  [][\A b \in Bodies, r \in 1..NumRand :
       (/\ InvalidInput(b)
        /\ ~checkRateLimit(RATE_LIMIT_STORE, "a", "POST", now)
        /\ Post("a", b, r))
       => /\ resp'.code = 400
          /\ wf' = wf
          /\ DOMAIN REFLECTION_STORE' \subseteq DOMAIN REFLECTION_STORE]_vars

\* the handler answered a request 429 in this step
RateLimited == RATE_LIMIT_STORE' # RATE_LIMIT_STORE /\ resp'.code = 429

\* C23 as stated: a request rejected by the limiter leaves the job store,
\* the pending deletes and the workflows as they were.
C23_RejectedHasNoEffect ==
  [][RateLimited =>
       /\ REFLECTION_STORE' = REFLECTION_STORE
       /\ timers' = timers
       /\ wf' = wf]_vars

\* C23 amended: a request rejected by the limiter is answered 429 after
\* the sweep that opens every handler invocation: the store loses its
\* stale records and nothing else, no record is created or changed, no
\* delete is scheduled and no workflow is dispatched.
C23_RejectedOnlySweeps ==
  [][RateLimited =>
       /\ REFLECTION_STORE' = cleanupStaleEntries(REFLECTION_STORE, now)
       /\ timers' = timers
       /\ wf' = wf
       /\ resp'.retryAfter = "60"]_vars

\* a status read over the ceiling was answered 429 for a finished job
\* that no read had seen: its record is there and no delete is scheduled
C23_Witness ==
  /\ resp.method = "GET" /\ resp.code = 429
  /\ resp.id \in DOMAIN REFLECTION_STORE
  /\ REFLECTION_STORE[resp.id].status = "completed"
  /\ timers = EmptyBag
  /\ <<"a", "POST">> \in DOMAIN RATE_LIMIT_STORE
  /\ RATE_LIMIT_STORE[<<"a", "POST">>].count > MAX_POST_REQUESTS_PER_IP

\* C24: the body of a 200 status response has the keys status, result
\* and error and no other; its result is non-null only with status
\* 'completed', its error is non-null only with status 'error' and is then
\* the fixed message 'An error occurred', not the error the record holds.
C24_SafeResponseOnly ==
  /\ \A id \in DOMAIN REFLECTION_STORE :
        DOMAIN safeResponse(REFLECTION_STORE[id]) = {"status", "result", "error"}
  /\ (resp.method = "GET" /\ resp.code = 200) =>
        /\ ~IsNull(resp.result) => resp.status = "completed"
        /\ ~IsNull(resp.error) => resp.status = "error" /\ resp.error = GENERIC_ERROR
        /\ resp.error # FAILED_MESSAGE

\* a status read of a failed job: the record holds the workflow's error
\* message, the response the generic one
C24_Witness ==
  /\ resp.method = "GET" /\ resp.code = 200 /\ resp.status = "error"
  /\ resp.error = GENERIC_ERROR /\ resp.result = JsNull
  /\ resp.id \in DOMAIN REFLECTION_STORE
  /\ REFLECTION_STORE[resp.id].error = FAILED_MESSAGE
  /\ hist.observed # -1

\* C25: without an API key a dispatched workflow has made no call to the
\* upstream and no backoff wait, has returned, and has written 'error' for
\* its job.
C25_NoKeyFailsFast ==
  (~hasKey /\ wf # <<>>) =>
    /\ hist.seen = <<>> /\ hist.waits = <<>>
    /\ wf[1].pc = "done"
    /\ hist.end = "error"
    /\ wf[1].id \in DOMAIN REFLECTION_STORE => REFLECTION_STORE[wf[1].id].status = "error"

\* a create was accepted without an API key, and its record is 'error'
\* when the 202 is returned
C25_Witness ==
  /\ ~hasKey /\ wf # <<>>
  /\ resp.method = "POST" /\ resp.code = 202 /\ resp.id = wf[1].id
  /\ wf[1].id \in DOMAIN REFLECTION_STORE
  /\ REFLECTION_STORE[wf[1].id].status = "error"
  /\ hist.seen = <<>> /\ hist.end = "error"

\* C26: no two dispatched workflows have the same job id.
C26_OneWorkflowPerId ==
  \A i, j \in 1..Len(wf) : i # j => wf[i].id # wf[j].id

\* C29: the id a create returns is not the id of an earlier create, and
\* there is no record under it when the create stores its own.
C29_IdsNeverCollide ==
  [][Len(wf') = Len(wf) + 1 =>
       /\ resp'.id \notin KnownIds
       /\ resp'.id \notin DOMAIN REFLECTION_STORE]_vars

\* C27: a status read taken at any point of the workflow's run sees a whole
\* record: its 200 answer is (pending, null, null), or (completed, the
\* content the upstream returned, null), or (error, null, the generic
\* message); and a stored pending record has its retry count and its retry
\* time either both written or both unwritten.
C27_NoTornRead ==
  /\ (resp.method = "GET" /\ resp.code = 200) =>
        \/ resp.status = "pending" /\ resp.result = JsNull /\ resp.error = JsNull
        \/ /\ resp.status = "completed"
           /\ hist.payload # 0
           /\ resp.result = Payloads[hist.payload].content
           /\ resp.error = JsNull
        \/ resp.status = "error" /\ resp.result = JsNull /\ resp.error = GENERIC_ERROR
  /\ \A id \in DOMAIN REFLECTION_STORE :
        REFLECTION_STORE[id].status = "pending" =>
          (REFLECTION_STORE[id].retryCount = 0 <=> REFLECTION_STORE[id].retryAfter = NoDate)

\* C30: a request is counted in a record whose window holds the time of
\* the request: windowStart <= t < windowStart + windowSize; a request
\* that arrives windowSize after windowStart is counted in a new window.
C30_CountWithinWindow ==
  [][RATE_LIMIT_STORE' # RATE_LIMIT_STORE =>
       LET entry == RATE_LIMIT_STORE'[<<resp'.ip, resp'.method>>]
       IN  /\ entry.timestamp <= now
           /\ now < entry.timestamp + RATE_WINDOW_MS]_vars

\* the step sends a POST or a status GET
ClientSends == cl'.pc \in {"create", "poll"} /\ cl'.pc # cl.pc

\* C28: the client sends at most 30 status reads for a job, and once
\* checkStatus has found the ceiling exceeded it sends no further POST and
\* no further status read.
C28_PollCeilingIsTerminal ==
  [][/\ cl'.pc = "poll" => cl'.attempts <= maxAttempts
     /\ cl.exceeded => ~ClientSends]_vars

\* C31: an OPTIONS request is answered 204 and a request of an unsupported
\* method 405, also when the client is over its ceilings; the request
\* changes no rate-limit record, adds no job record, changes no field of a
\* job record, and starts no workflow and no delete timer.
C31_PreflightAndUnsupported ==
  [][\A m \in {"OPTIONS", "PUT"} :
       Other("a", m) =>
         /\ resp'.code = IF m = "OPTIONS" THEN 204 ELSE 405
         /\ RATE_LIMIT_STORE' = RATE_LIMIT_STORE
         /\ \A id \in DOMAIN REFLECTION_STORE' :
              id \in DOMAIN REFLECTION_STORE /\ REFLECTION_STORE'[id] = REFLECTION_STORE[id]
         /\ wf' = wf /\ timers' = timers]_vars

\* an unsupported method was answered 405 while the client's POSTs were
\* over the ceiling and a job record was in the store
C31_Witness ==
  /\ resp.method = "PUT" /\ resp.code = 405
  /\ <<"a", "POST">> \in DOMAIN RATE_LIMIT_STORE
  /\ RATE_LIMIT_STORE[<<"a", "POST">>].count > MAX_POST_REQUESTS_PER_IP
  /\ ~WindowExpired(now, RATE_LIMIT_STORE[<<"a", "POST">>].timestamp)
  /\ REFLECTION_STORE # <<>>

\* the first n well-formed elements of a, in the order of a
RECURSIVE FirstWellFormed(_, _)
FirstWellFormed(a, n) ==
  IF a = <<>> \/ n = 0 THEN <<>>
  ELSE IF WellFormedVerse(Head(a))
       THEN <<Head(a)>> \o FirstWellFormed(Tail(a), n - 1)
       ELSE FirstWellFormed(Tail(a), n)

\* C32: the entries validateVerses returns for an array are the first
\* maxVerses well-formed elements of the array, in the array's order, each
\* with its reference and its text sanitized; a well-formed element at or
\* beyond position maxVerses is returned when malformed ones precede it.
C32_FilterBeforeTruncate ==
  (val.pc = "returned" /\ val.kind = "array") =>
    LET first == FirstWellFormed(ValInput(val).v, val.maxVerses)
    IN  val.out = [i \in 1..Len(first) |->
                     [reference |-> sanitizeInput(first[i].v.reference, MAX_REFERENCE_LEN),
                      text |-> sanitizeInput(first[i].v.text, MAX_TEXT_LEN)]]

\* with maxVerses = 1, the good verse that follows a null is returned
C32_Witness ==
  /\ val.pc = "returned" /\ val.kind = "array"
  /\ val.elems = <<1, 6>> /\ val.maxVerses = 1
  /\ Len(val.out) = 1
  /\ val.out[1].reference = sanitizeInput(GoodVerse.v.reference, MAX_REFERENCE_LEN)

\* C33: the one counter retryCount counts the calls that ended in a 429 or
\* in a transport failure, whatever their order, so a workflow makes at most
\* maxRetries + 1 calls; a transport failure never ends the loop through
\* its test, so the response examined after the loop (a 429 when the
\* retries are used up, the payload's response otherwise) is that of the
\* most recent call.
C33_SharedCounterLatestResponse ==
  wf # <<>> =>
    LET w == wf[1]
        calls == Len(hist.seen)
    IN  /\ calls <= maxRetries + 1
        /\ w.pc = "fetch" => w.retryCount = calls /\ calls <= maxRetries
        /\ w.pc = "waitErr" => w.retryCount = calls /\ w.retryCount <= maxRetries
        /\ w.pc = "wait429" =>
             /\ w.retryCount = calls - 1
             /\ w.status = 429 /\ hist.seen[calls] = 429
        /\ w.pc = "json" => Ok(w.status) /\ hist.seen[calls] = w.status

\* 429s and transport failures in turn: the fourth call is the last
C33_Witness ==
  /\ hist.seen = <<429, THROWN, 429, THROWN>>
  /\ wf[1].pc = "done"
  /\ hist.end = "error"

\* C34: a status read for an id whose record started more than
\* MAX_STORE_AGE_MS ago is answered 404, or 429 when the client is over
\* its ceiling, never 200; the record is gone after the read.
C34_NoStale200 ==
  [][\A id \in DOMAIN REFLECTION_STORE :
       (Stale(REFLECTION_STORE[id], now) /\ Get("a", id)) =>
          /\ resp'.code \in {404, 429}
          /\ resp'.code = 429 <=> checkRateLimit(RATE_LIMIT_STORE, "a", "GET", now)
          /\ id \notin DOMAIN REFLECTION_STORE']_vars

\* a status read for a job older than 30 minutes, which no read had seen
\* terminal, was answered 404
C34_Witness ==
  /\ wf # <<>>
  /\ resp.method = "GET" /\ resp.code = 404 /\ resp.id = wf[1].id
  /\ now - wf[1].id.t > MAX_STORE_AGE_MS
  /\ hist.gone /\ hist.observed = -1
  /\ timers = EmptyBag

\* C35 as stated: once a status read has seen a job terminal, the job's
\* record is removed when CLEANUP_DELAY_MS have passed since that first
\* read, however many status reads follow in between; every pending delete
\* was scheduled by a read at or after the first one; and a delete that
\* fires for an id that is not in the store leaves the store as it is.
C35_LifetimeFixedByFirstObservation ==
  [][/\ (hist'.observed # -1 /\ now' > hist'.observed + CLEANUP_DELAY_MS) =>
          hist'.gone /\ wf'[1].id \notin DOMAIN REFLECTION_STORE'
     /\ \A tm \in BagToSet(timers') :
          hist'.observed # -1 /\ tm.fireAt >= hist'.observed + CLEANUP_DELAY_MS
     /\ \A tm \in BagToSet(timers) :
          (tm.id \notin DOMAIN REFLECTION_STORE /\ TimerFires(tm)) =>
             REFLECTION_STORE' = REFLECTION_STORE]_vars

\* C35 amended: every pending delete was scheduled by the first read that
\* saw the job terminal or by a later one, and is due CLEANUP_DELAY_MS
\* after its read; no step but the run of a callback takes a pending delete
\* away or puts it off, so the status reads that follow the first never
\* extend the record's life; a callback that runs, no earlier than one
\* millisecond before it is due, leaves no record under its id; and a
\* callback that runs for an id that is not in the store leaves the store
\* as it is.
C35_FirstTimerNeverPostponed ==
  [][/\ \A tm \in BagToSet(timers') :
          hist'.observed # -1 /\ tm.fireAt >= hist'.observed + CLEANUP_DELAY_MS
     /\ \/ timers \sqsubseteq timers'
        \/ \E tm \in BagToSet(timers) : TimerFires(tm)
     /\ \A tm \in BagToSet(timers) :
          TimerFires(tm) =>
             /\ now >= tm.fireAt - 1
             /\ tm.id \notin DOMAIN REFLECTION_STORE'
             /\ tm.id \notin DOMAIN REFLECTION_STORE => REFLECTION_STORE' = REFLECTION_STORE]_vars

\* a status read saw the job terminal at 0 and a second one read it a
\* millisecond before the cleanup delay had passed; the callback of the
\* first read has removed the record and that of the second is pending
C35_Witness ==
  /\ wf # <<>> /\ hist.observed = 0 /\ hist.polls >= 1
  /\ now = CLEANUP_DELAY_MS
  /\ hist.gone /\ wf[1].id \notin DOMAIN REFLECTION_STORE
  /\ ~BagIn(FirstTimer, timers)
  /\ BagIn([id |-> wf[1].id, fireAt |-> 2 * CLEANUP_DELAY_MS - 1], timers)

\* C36: a status read that is answered 'pending' leaves the record as it
\* was and schedules no delete; and a record that is removed while it is
\* 'pending' is older than MAX_STORE_AGE_MS, removed by the sweep.
C36_PendingPollReadOnly ==
  [][/\ \A id \in KnownIds :
          (Get("a", id) /\ resp'.code = 200 /\ resp'.status = "pending") =>
             /\ id \in DOMAIN REFLECTION_STORE
             /\ REFLECTION_STORE'[id] = REFLECTION_STORE[id]
             /\ timers' = timers
     /\ \A id \in DOMAIN REFLECTION_STORE :
          (REFLECTION_STORE[id].status = "pending" /\ id \notin DOMAIN REFLECTION_STORE') =>
             Stale(REFLECTION_STORE[id], now) /\ SweepInvoked]_vars

\* C37: a request of a client that is at or over its ceiling in a window
\* that has not expired is answered 429, adds one to the count and leaves
\* the window start as it was; the first request after the window has
\* expired is allowed, however many requests were rejected meanwhile.
C37_RejectionKeepsWindowStart ==
  [][\A k \in DOMAIN RATE_LIMIT_STORE :
       (/\ RATE_LIMIT_STORE' # RATE_LIMIT_STORE
        /\ resp'.ip = k[1] /\ resp'.method = k[2]
        /\ RATE_LIMIT_STORE[k].count >= RateLimitOf(k[2])) =>
          IF WindowExpired(now, RATE_LIMIT_STORE[k].timestamp)
          THEN resp'.code # 429
          ELSE /\ resp'.code = 429
               /\ RATE_LIMIT_STORE'[k].count = RATE_LIMIT_STORE[k].count + 1
               /\ RATE_LIMIT_STORE'[k].timestamp = RATE_LIMIT_STORE[k].timestamp]_vars

\* a POST was rejected: it is counted, and the window still starts at 0
\* when the clock has moved on
C37_Witness ==
  /\ resp.method = "POST" /\ resp.ip = "a" /\ resp.code = 429
  /\ <<"a", "POST">> \in DOMAIN RATE_LIMIT_STORE
  /\ RATE_LIMIT_STORE[<<"a", "POST">>] =
       [count |-> MAX_POST_REQUESTS_PER_IP + 1, timestamp |-> 0]
  /\ now = RATE_WINDOW_MS

\* C38: every record put in the store, the one written at the create, and
\* the one a terminal write puts back after the sweep, is deleted in the
\* end: once a job exists the store is eventually empty, and stays so.
C38_StoreDoesNotLeak == (wf # <<>>) ~> [](REFLECTION_STORE = <<>>)

\* the workflow of a job that nobody polled has completed, the job's
\* record has been swept, and the store is empty at the last clock reading
C38_Witness ==
  /\ wf # <<>> /\ wf[1].pc = "done" /\ hist.end = "completed"
  /\ hist.gone
  /\ now = LeakHorizon
  /\ REFLECTION_STORE = <<>>

\* C39: a handler invocation that only sweeps and reads (OPTIONS, an
\* unsupported method, a status read) keeps every record whose age is at
\* most MAX_STORE_AGE_MS, pending or not, with all its fields as they were,
\* and what the sweep returns is the store without its expired records.
C39_SweepRemovesOnlyExpired ==
  [][(\/ \E m \in {"OPTIONS", "PUT"} : Other("a", m)
      \/ \E id \in AskedIds : Get("a", id)) =>
       /\ \A id \in DOMAIN REFLECTION_STORE :
            ~Stale(REFLECTION_STORE[id], now) =>
               /\ id \in DOMAIN REFLECTION_STORE'
               /\ REFLECTION_STORE'[id] = REFLECTION_STORE[id]
       /\ \A id \in DOMAIN REFLECTION_STORE' :
            id \in DOMAIN REFLECTION_STORE /\ ~Stale(REFLECTION_STORE[id], now)]_vars

\* a status read made exactly MAX_STORE_AGE_MS after the create found the
\* job, whose workflow is in flight, still pending
C39_Witness ==
  /\ wf # <<>> /\ wf[1].pc # "done" /\ wf[1].id.t = 0
  /\ now = MAX_STORE_AGE_MS
  /\ <<"a", "GET">> \in DOMAIN RATE_LIMIT_STORE
  /\ RATE_LIMIT_STORE[<<"a", "GET">>].timestamp = MAX_STORE_AGE_MS
  /\ resp.method = "GET" /\ resp.code = 200 /\ resp.status = "pending"
  /\ wf[1].id \in DOMAIN REFLECTION_STORE
  /\ GetTime(REFLECTION_STORE[wf[1].id].started) = 0

\* C40: whatever the server does, one call of generateReflectionAndPrayer
\* sends at most three POSTs and at most maxAttempts status reads for
\* each job; a status answer 'completed' without result is handled like
\* 'pending', the job is read again a second later; and the call always
\* ends, having shown the result or the error view.
C40_ClientTerminates ==
  /\ [](/\ cl.creates <= clientMaxRetries
        /\ cl.pc \in {"poll", "pollJson", "pollTimer"} => cl.attempts \in 1..maxAttempts
        /\ cl.pc = "done" => cl.shown \in {"result", "error"})
  /\ [][(cl.pc = "pollJson" /\ StatusJsonSettles("completedEmpty")) =>
          cl' = [cl EXCEPT !.pc = "pollTimer", !.shown = "loading"]]_vars
  /\ (cl.pc # "idle") ~> (cl.pc = "done")
====
